---- MODULE Spec2Model ----
(***************************************************************************)
(* A model of the recovery ingestion engine of standalone/reader.py        *)
(* (class ArchiveReader).                                                   *)
(*                                                                         *)
(* Text is modelled character by character: a text is a sequence of        *)
(* one-character strings.  The JSON punctuation, the double quote, the     *)
(* backslash, the space, the digits and a few content letters are          *)
(* themselves.  The key names of the archive schema are abbreviated to one *)
(* upper-case letter each, so that a file of a few dozen characters holds  *)
(* a whole database:                                                       *)
(*    P pages        R page_topics   S settings      Q crawl_queue         *)
(*    U url          I id            L title         H html_content        *)
(*    D date_archived X description  K topic         G page_id             *)
(*    C topics                                                             *)
(* The alphabet holds none of the letters of a JSON escape (b f n r t u)   *)
(* or of a JSON literal (true, false, null), nor a sign, a dot or an       *)
(* exponent, so the only JSON values a text can hold are strings,          *)
(* non-negative integers, lists and objects.                               *)
(***************************************************************************)
EXTENDS Integers, Sequences, FiniteSets, TLC

QT == "\""
BS == "\\"

Digits == <<"0", "1", "2", "3", "4", "5", "6", "7", "8", "9">>

IsDigit(c) == \E d \in 1..10 : Digits[d] = c

DigitVal(c) == (CHOOSE d \in 1..10 : Digits[d] = c) - 1

Letters == {"P", "R", "S", "Q", "U", "I", "L", "H", "D", "X", "K", "G", "C",
            "a", "c", "x", "y", "z"}

\* \s of the regular expressions and the whitespace json skips
IsWs(c) == c = " "

\* [a-zA-Z0-9_] of cleanup_json
IsWord(c) == c \in Letters \/ IsDigit(c) \/ c = "_"

(***************************************************************************)
(* Python values.  Every value is a record with a tag t and one field per  *)
(* type (s: the characters of a str, n: an int, l: the items of a list,    *)
(* d: the mapping of a dict), so that any two values can be compared and   *)
(* values of different types are unequal, as in Python.                    *)
(***************************************************************************)
Val(t, s, n, l, d) == [t |-> t, s |-> s, n |-> n, l |-> l, d |-> d]

None == Val("none", <<>>, 0, <<>>, <<>>)

StrV(cs) == Val("str", cs, 0, <<>>, <<>>)

NumV(k) == Val("num", <<>>, k, <<>>, <<>>)

ListV(xs) == Val("list", <<>>, 0, xs, <<>>)

DictV(f) == Val("dict", <<>>, 0, <<>>, f)

EmptyDict == DictV(<<>>)

IsDict(x) == x.t = "dict"

IsList(x) == x.t = "list"

\* key in d
Has(d, k) == k \in DOMAIN d.d

\* d.get(k)
Get(d, k) == IF Has(d, k) THEN d.d[k] ELSE None

\* d.get(k, default)
GetOr(d, k, dflt) == IF Has(d, k) THEN d.d[k] ELSE dflt

\* d[k] = x
Put(d, k, x) == DictV((k :> x) @@ d.d)

\* d.update(e)
Update(d, e) == DictV(e.d @@ d.d)

\* bool(x)
Truthy(x) ==
    CASE x.t = "none" -> FALSE
      [] x.t = "num" -> x.n # 0
      [] x.t = "str" -> Len(x.s) > 0
      [] x.t = "list" -> Len(x.l) > 0
      [] x.t = "dict" -> DOMAIN x.d # {}

\* the keys of the schema, as dictionary keys
kPages == <<"P">>
kTopics == <<"R">>
kSettings == <<"S">>
kQueue == <<"Q">>
kUrl == <<"U">>
kId == <<"I">>
kTitle == <<"L">>
kHtml == <<"H">>
kDate == <<"D">>
kDesc == <<"X">>
kTopic == <<"K">>
kPageId == <<"G">>
kInline == <<"C">>
kTotalSize == <<"z">>

(***************************************************************************)
(* json.loads                                                              *)
(***************************************************************************)
\* F of the value v: a local variable, assigned once and read in F
Bind(v, F(_)) == F(v)

\* the least element of a set of indices, 0 for the empty set
First(S) == IF S = {} THEN 0 ELSE CHOOSE i \in S : \A j \in S : i <= j

\* the first index >= i that holds no whitespace (Len(s) + 1 when none)
SkipWs(s, i) ==
    IF i > Len(s) THEN i
    ELSE First({j \in i..(Len(s) + 1) : j = Len(s) + 1 \/ ~IsWs(s[j])})

Fail == [ok |-> FALSE, v |-> None, nx |-> 0]

Ok(val, nx) == [ok |-> TRUE, v |-> val, nx |-> nx]

\* the characters of a string whose opening quote is before i
RECURSIVE ScanString(_, _, _)
ScanString(s, i, acc) ==
    IF i > Len(s) THEN Fail
    ELSE IF s[i] = QT THEN Ok(acc, i + 1)
    ELSE IF s[i] = BS
         THEN IF i + 1 <= Len(s) /\ s[i + 1] \in {QT, BS, "/"}
              THEN ScanString(s, i + 2, Append(acc, s[i + 1]))
              ELSE Fail
    ELSE ScanString(s, i + 1, Append(acc, s[i]))

RECURSIVE ScanDigits(_, _, _)
ScanDigits(s, i, acc) ==
    IF i <= Len(s) /\ IsDigit(s[i])
    THEN ScanDigits(s, i + 1, 10 * acc + DigitVal(s[i]))
    ELSE Ok(NumV(acc), i)

RECURSIVE ParseValue(_, _)
RECURSIVE ParseMembers(_, _, _)
RECURSIVE ParseElems(_, _, _)

\* one value starting at i (scan_once)
ParseValue(s, i) ==
    IF i > Len(s) THEN Fail
    ELSE IF s[i] = QT
         THEN Bind(ScanString(s, i + 1, <<>>), LAMBDA r :
                  IF r.ok THEN Ok(StrV(r.v), r.nx) ELSE Fail)
    ELSE IF s[i] = "{"
         THEN Bind(SkipWs(s, i + 1), LAMBDA j :
                  IF j <= Len(s) /\ s[j] = "}" THEN Ok(EmptyDict, j + 1)
                  ELSE ParseMembers(s, j, EmptyDict))
    ELSE IF s[i] = "["
         THEN Bind(SkipWs(s, i + 1), LAMBDA j :
                  IF j <= Len(s) /\ s[j] = "]" THEN Ok(ListV(<<>>), j + 1)
                  ELSE ParseElems(s, j, <<>>))
    ELSE IF s[i] = "0" THEN Ok(NumV(0), i + 1)
    ELSE IF IsDigit(s[i]) THEN ScanDigits(s, i, 0)
    ELSE Fail

\* the members of an object from the key at i on (JSONObject)
ParseMembers(s, i, acc) ==
    IF i > Len(s) \/ s[i] # QT THEN Fail
    ELSE Bind(ScanString(s, i + 1, <<>>), LAMBDA k :
         IF ~k.ok THEN Fail
         ELSE Bind(SkipWs(s, k.nx), LAMBDA j :
              IF j > Len(s) \/ s[j] # ":" THEN Fail
              ELSE Bind(ParseValue(s, SkipWs(s, j + 1)), LAMBDA x :
                   IF ~x.ok THEN Fail
                   ELSE Bind(SkipWs(s, x.nx), LAMBDA m :
                        IF m > Len(s) THEN Fail
                        ELSE IF s[m] = "}" THEN Ok(Put(acc, k.v, x.v), m + 1)
                        ELSE IF s[m] = ","
                             THEN ParseMembers(s, SkipWs(s, m + 1), Put(acc, k.v, x.v))
                        ELSE Fail))))

\* the elements of a list from the value at i on (JSONArray)
ParseElems(s, i, acc) ==
    Bind(ParseValue(s, i), LAMBDA x :
         IF ~x.ok THEN Fail
         ELSE Bind(SkipWs(s, x.nx), LAMBDA m :
              IF m > Len(s) THEN Fail
              ELSE IF s[m] = "]" THEN Ok(ListV(Append(acc, x.v)), m + 1)
              ELSE IF s[m] = "," THEN ParseElems(s, SkipWs(s, m + 1), Append(acc, x.v))
              ELSE Fail))

\* json.loads(s): ok is FALSE where json.loads raises JSONDecodeError
Loads(s) ==
    Bind(ParseValue(s, SkipWs(s, 1)), LAMBDA r :
         IF r.ok /\ SkipWs(s, r.nx) = Len(s) + 1 THEN r ELSE Fail)

(***************************************************************************)
(* Text: str.find, slices, the regular expressions                         *)
(***************************************************************************)
\* text[a-1:b] of Python, as the characters a..b
Slice(s, a, b) == SubSeq(s, a, b)

\* text[a-1:]
From(s, a) == SubSeq(s, a, Len(s))

\* text[-n:]
Last(s, n) == IF Len(s) > n THEN SubSeq(s, Len(s) - n + 1, Len(s)) ELSE s

\* pat occurs in s at i
At(s, pat, i) ==
    /\ i >= 1
    /\ i + Len(pat) - 1 <= Len(s)
    /\ \A k \in 1..Len(pat) : s[i + k - 1] = pat[k]

\* s.find(pat, from): the first index >= from where pat occurs, 0 when none
Find(s, pat, from) == First({i \in from..(Len(s) - Len(pat) + 1) : At(s, pat, i)})

\* pat in s
Contains(s, pat) == Find(s, pat, 1) # 0

\* the first index >= from holding the character c, 0 when none
FindChar(s, c, from) == Find(s, <<c>>, from)

Quoted(k) == <<QT>> \o k \o <<QT>>

\* s.lstrip().startswith(c)
LStripStartsWith(s, c) == \E i \in {SkipWs(s, 1)} : i <= Len(s) /\ s[i] = c

\* s.strip().startswith(c)
StripStartsWith(s, c) == LStripStartsWith(s, c)

NoMatch == [ok |-> FALSE, a |-> 0, b |-> 0]

Match(a, b) == [ok |-> TRUE, a |-> a, b |-> b]

\* "key"\s*:\s*<open> matched at i: the index of the opener, else 0
KeyOpenAt(s, key, open, i) ==
    IF ~At(s, Quoted(key), i) THEN 0
    ELSE Bind(SkipWs(s, i + Len(key) + 2), LAMBDA j :
         IF j > Len(s) \/ s[j] # ":" THEN 0
         ELSE Bind(SkipWs(s, j + 1), LAMBDA k :
              IF k <= Len(s) /\ s[k] = open THEN k ELSE 0))

\* the opener of the first "key"\s*:\s*<open> that starts at or after from
KeyOpen(s, key, open, from) ==
    Bind(First({i \in from..Len(s) : KeyOpenAt(s, key, open, i) # 0}), LAMBDA i :
         IF i = 0 THEN 0 ELSE KeyOpenAt(s, key, open, i))

\* the first closer after the index a of an opener: a match a..b
SpanFrom(s, a, close) ==
    IF a = 0 THEN NoMatch
    ELSE Bind(FindChar(s, close, a + 1), LAMBDA b :
              IF b = 0 THEN NoMatch ELSE Match(a, b))

\* re.search(r'"key"\s*:\s*(<open>[\s\S]*?<close>)', s): group 1 is a..b.
\* The lazy [\s\S]*? ends the group at the first closer after the opener.
KeySpan(s, key, open, close) == SpanFrom(s, KeyOpen(s, key, open, 1), close)

\* re.search(r'\{[\s\S]*?"pages"\s*:\s*\[[\s\S]*?\][\s\S]*?\}', s): group 0
DbSpan(s) ==
    Bind(FindChar(s, "{", 1), LAMBDA a :
         IF a = 0 THEN NoMatch
         ELSE Bind(SpanFrom(s, KeyOpen(s, kPages, "[", a + 1), "]"), LAMBDA c :
              IF ~c.ok THEN NoMatch
              ELSE Bind(FindChar(s, "}", c.b + 1), LAMBDA b :
                   IF b = 0 THEN NoMatch ELSE Match(a, b))))

\* the first index >= from where one of the keys stands in quotes, 0 when none
FindQuotedKey(s, keys, from) ==
    First({i \in from..Len(s) : \E k \in keys : At(s, Quoted(k), i)})

\* \{\s*"(?:k1|k2|...) matched at i: the index after the key name, else 0
ObjHeadAt(s, keys, i) ==
    IF i > Len(s) \/ s[i] # "{" THEN 0
    ELSE Bind(SkipWs(s, i + 1), LAMBDA j :
         IF j > Len(s) \/ s[j] # QT THEN 0
         ELSE IF \E k \in keys : At(s, k, j + 1)
              THEN j + 1 + Len(CHOOSE k \in keys : At(s, k, j + 1))
              ELSE 0)

FindObjHead(s, keys, from) == First({i \in from..Len(s) : ObjHeadAt(s, keys, i) # 0})

\* the first match at or after from of
\*   \{\s*"(?:keys)[\s\S]*?(?:"(?:keys)"[\s\S]*?){1,}?\}
\* (page_pattern, topic_pattern): from the first brace that opens with a
\* key name, over the next key name that stands in quotes, to the first
\* closing brace after that one.
ObjMatch(s, keys, from) ==
    Bind(FindObjHead(s, keys, from), LAMBDA a :
         IF a = 0 THEN NoMatch
         ELSE Bind(FindQuotedKey(s, keys, ObjHeadAt(s, keys, a)), LAMBDA q :
              IF q = 0 THEN NoMatch
              ELSE Bind(FindChar(s, "}", q + Len(CHOOSE k \in keys : At(s, Quoted(k), q)) + 2),
                        LAMBDA e : IF e = 0 THEN NoMatch ELSE Match(a, e))))

\* pattern.finditer(s): the matches in order, each searched after the last
RECURSIVE ObjMatches(_, _, _)
ObjMatches(s, keys, from) ==
    Bind(ObjMatch(s, keys, from), LAMBDA m :
         IF ~m.ok THEN <<>> ELSE <<m>> \o ObjMatches(s, keys, m.b + 1))

PageKeys == {kId, kUrl, kTitle, kHtml, kDate, kDesc}

TopicKeys == {kId, kTopic, kPageId}

NoString == [ok |-> FALSE, at |-> 0, a |-> 0, b |-> 0]

\* re.search(r'"key"\s*:\s*"([^"]+)"', s) from index from on: group 1 is
\* a..b, at is where the match starts
KeyStringAt(s, key, i) ==
    Bind(KeyOpenAt(s, key, QT, i), LAMBDA o :
         IF o = 0 THEN NoString
         ELSE Bind(FindChar(s, QT, o + 1), LAMBDA c :
              IF c > o + 1 THEN [ok |-> TRUE, at |-> i, a |-> o + 1, b |-> c - 1]
              ELSE NoString))

KeyString(s, key, from) ==
    KeyStringAt(s, key, First({i \in from..Len(s) : KeyStringAt(s, key, i).ok}))

(***************************************************************************)
(* cleanup_json                                                            *)
(***************************************************************************)
\* json_str.replace("'", '"')
SingleToDouble(s) == [i \in 1..Len(s) |-> IF s[i] = "'" THEN QT ELSE s[i]]

\* re.sub(r',\s*(\}|\])', r'\1', s)
\* ,\s*(\}|\]) matches at i
TrailingCommaAt(s, i) ==
    s[i] = "," /\ \E j \in {SkipWs(s, i + 1)} : j <= Len(s) /\ s[j] \in {"}", "]"}

\* each match, left to right from i on, is replaced by its closer
RECURSIVE DropTrailingCommas(_, _)
DropTrailingCommas(s, i) ==
    Bind(First({k \in i..Len(s) : TrailingCommaAt(s, k)}), LAMBDA a :
         IF a = 0 THEN From(s, i)
         ELSE Slice(s, i, a - 1) \o DropTrailingCommas(s, SkipWs(s, a + 1)))

\* the first index >= i that holds no word character (Len(s) + 1 when none)
SkipWord(s, i) ==
    IF i > Len(s) THEN i
    ELSE First({j \in i..(Len(s) + 1) : j = Len(s) + 1 \/ ~IsWord(s[j])})

\* ([{,]\s*)([a-zA-Z0-9_]+)(\s*:) matched at i: the index of the colon, else 0
BareKeyAt(s, i) ==
    IF s[i] \notin {"{", ","} THEN 0
    ELSE Bind(SkipWs(s, i + 1), LAMBDA j :
         Bind(SkipWord(s, j), LAMBDA k :
         Bind(SkipWs(s, k), LAMBDA m :
              IF k > j /\ m <= Len(s) /\ s[m] = ":" THEN m ELSE 0)))

\* the match at a that ends at the colon m: the word between gets quoted
QuoteBareKey(s, a, m) ==
    Bind(SkipWs(s, a + 1), LAMBDA j :
    Bind(SkipWord(s, j), LAMBDA k :
         Slice(s, a, j - 1) \o <<QT>> \o Slice(s, j, k - 1) \o <<QT>> \o Slice(s, k, m)))

\* re.sub(r'([{,]\s*)([a-zA-Z0-9_]+)(\s*:)', r'\1"\2"\3', s)
\* each match, left to right from i on, gets its word quoted
RECURSIVE QuoteBareKeys(_, _)
QuoteBareKeys(s, i) ==
    Bind(First({x \in i..Len(s) : BareKeyAt(s, x) # 0}), LAMBDA a :
         IF a = 0 THEN From(s, i)
         ELSE Bind(BareKeyAt(s, a), LAMBDA m :
              Slice(s, i, a - 1) \o QuoteBareKey(s, a, m) \o QuoteBareKeys(s, m + 1)))

cleanup_json(s) == QuoteBareKeys(DropTrailingCommas(SingleToDouble(s), 1), 1)

(***************************************************************************)
(* The bracket scanner                                                     *)
(***************************************************************************)
\* The state of the for loop of process_structured_json (open "{", close
\* "}") and of extract_other_data ("[", "]"); found is the index at which
\* depth returned to 0 and the loop was left, 0 while it runs.
ScanInit == [depth |-> 0, in_quotes |-> FALSE, escape_next |-> FALSE, found |-> 0]

\* ScanStep as it would be without the escape flag
ScanStepNoEscape(st, buf, i, open, close) ==
    IF st.found # 0 THEN st
    ELSE IF buf[i] = QT THEN [st EXCEPT !.in_quotes = ~st.in_quotes]
    ELSE IF st.in_quotes THEN st
    ELSE IF buf[i] = open THEN [st EXCEPT !.depth = st.depth + 1]
    ELSE IF buf[i] = close
         THEN [st EXCEPT !.depth = st.depth - 1,
                         !.found = IF st.depth - 1 = 0 THEN i ELSE 0]
    ELSE st

\* one iteration of the loop, at index i
ScanStep(st, buf, i, open, close) ==
    IF st.found # 0 THEN st
    ELSE IF st.escape_next THEN [st EXCEPT !.escape_next = FALSE]
    ELSE IF buf[i] = BS THEN [st EXCEPT !.escape_next = TRUE]
    ELSE IF buf[i] = QT THEN [st EXCEPT !.in_quotes = ~st.in_quotes]
    ELSE IF st.in_quotes THEN st
    ELSE IF buf[i] = open THEN [st EXCEPT !.depth = st.depth + 1]
    ELSE IF buf[i] = close
         THEN [st EXCEPT !.depth = st.depth - 1,
                         !.found = IF st.depth - 1 = 0 THEN i ELSE 0]
    ELSE st

\* the iterations for the indices a..b, in order
RECURSIVE ScanLoop(_, _, _, _, _, _)
ScanLoop(st, buf, a, b, open, close) ==
    IF a > b THEN st
    ELSE IF a = b THEN ScanStep(st, buf, a, open, close)
    ELSE Bind(ScanLoop(st, buf, a, (a + b) \div 2, open, close), LAMBDA left :
              IF left.found # 0 THEN left
              ELSE ScanLoop(left, buf, ((a + b) \div 2) + 1, b, open, close))

\* the end of the object that opens at obj_start, 0 when incomplete
ScanObject(buf, obj_start) ==
    ScanLoop(ScanInit, buf, obj_start, Len(buf), "{", "}").found

\* the end of the array that opens at start, 0 when incomplete
ScanArray(text, start) ==
    ScanLoop(ScanInit, text, start, Len(text), "[", "]").found

(***************************************************************************)
(* The database and the structural normalizer                              *)
(***************************************************************************)
\* hash(url) % 10000000, scaled: the ids the normalizer synthesizes
HashMod == 2

\* the urls whose hash the process draws (hash of str is seeded per process)
HashedUrls == {<<"a">>, <<"c">>}

Untitled == <<"Untitled">>

Unknown == <<"Unknown">>

PartialRecovery == <<"Recovered from partially corrupt data">>

\* datetime.datetime.now().isoformat() at clock value n
IsoTime(n) == <<"T", Digits[(n % 10) + 1]>>

\* the database of __init__ and of load_large_file
EmptyDatabase ==
    DictV((kPages :> ListV(<<>>)) @@ (kTopics :> ListV(<<>>))
              @@ (kSettings :> EmptyDict) @@ (kQueue :> ListV(<<>>)))

\* a sequence holding the elements of a finite set, each once
SetToSeq(S) ==
    CHOOSE f \in [1..Cardinality(S) -> S] : \A x \in S : \E i \in DOMAIN f : f[i] = x

\* iter(x) is defined
Iterable(x) == x.t \in {"list", "dict", "str"}

\* the items "for y in x" visits
Items(x) ==
    CASE x.t = "list" -> x.l
      [] x.t = "dict" -> Bind(SetToSeq(DOMAIN x.d), LAMBDA ks :
                              [i \in 1..Len(ks) |-> StrV(ks[i])])
      [] x.t = "str" -> [i \in 1..Len(x.s) |-> StrV(<<x.s[i]>>)]
      [] OTHER -> <<>>

\* len(x) is defined
Sized(x) == x.t \in {"list", "dict", "str"}

\* len(x)
LenOf(x) ==
    CASE x.t = "list" -> Len(x.l)
      [] x.t = "dict" -> Cardinality(DOMAIN x.d)
      [] x.t = "str" -> Len(x.s)
      [] OTHER -> 0

\* hash(x) is defined
Hashable(x) == x.t \notin {"list", "dict"}

\* hash(x) % 10000000
HashOf(x, h) ==
    CASE x.t = "str" -> IF x.s \in DOMAIN h THEN h[x.s] ELSE Len(x.s) % HashMod
      [] x.t = "num" -> x.n % HashMod
      [] OTHER -> 0

\* is_valid_page
is_valid_page(page_obj) ==
    IsDict(page_obj) /\ (Has(page_obj, kUrl) \/ Has(page_obj, kTitle) \/ Has(page_obj, kId))

\* the number of entries a database holds (0 where it holds no list of them)
PageCount(db) ==
    IF IsDict(db) /\ Has(db, kPages) /\ IsList(db.d[kPages]) THEN Len(db.d[kPages].l) ELSE 0

\* if k not in d: d[k] = x
WithDefault(d, k, x) == IF Has(d, k) THEN d ELSE Put(d, k, x)

\* FixPage as it would be if the date were assigned on every run instead of
\* only where it is missing
FixPageRedating(page, now, h) ==
    Put(WithDefault(
            IF ~Has(page, kId) /\ Has(page, kUrl)
            THEN Put(page, kId, NumV(HashOf(page.d[kUrl], h)))
            ELSE page,
            kTitle, StrV(Untitled)),
        kDate, StrV(IsoTime(now)))

\* the body of the loop over pages: the id, title and date defaults
FixPage(page, now, h) ==
    WithDefault(
        WithDefault(
            IF ~Has(page, kId) /\ Has(page, kUrl)
            THEN Put(page, kId, NumV(HashOf(page.d[kUrl], h)))
            ELSE page,
            kTitle, StrV(Untitled)),
        kDate, StrV(IsoTime(now)))

\* hash(page["url"]) raises TypeError
FixPageRaises(page) ==
    IsDict(page) /\ ~Has(page, kId) /\ Has(page, kUrl) /\ ~Hashable(page.d[kUrl])

\* the loop over pages: bad is the first page at which it raises (0 when it
\* completes), items the pages as it leaves them
FixLoop(items, now, h) ==
    Bind(First({i \in DOMAIN items : FixPageRaises(items[i])}), LAMBDA bad :
         [bad |-> bad,
          items |-> [i \in DOMAIN items |->
                        IF IsDict(items[i]) /\ (bad = 0 \/ i < bad)
                        THEN FixPage(items[i], now, h) ELSE items[i]]])

\* {p.get("id") for p in pages if p.get("id")} raises: an item without .get,
\* or an id that cannot be hashed
PageIdsRaise(items) ==
    \E i \in DOMAIN items :
        \/ ~IsDict(items[i])
        \/ Truthy(Get(items[i], kId)) /\ ~Hashable(Get(items[i], kId))

PageIds(items) ==
    {Get(items[i], kId) : i \in {j \in DOMAIN items : Truthy(Get(items[j], kId))}}

\* topic["page_id"] in page_ids raises
TopicRaises(topic) ==
    IsDict(topic) /\ Has(topic, kTopic) /\ Has(topic, kPageId)
        /\ ~Hashable(topic.d[kPageId])

\* TopicKept as it would be without the test "in page_ids"
TopicKeptUnchecked(topic, page_ids) ==
    IsDict(topic) /\ Has(topic, kTopic) /\ Has(topic, kPageId)

\* the relation is appended to valid_topics
TopicKept(topic, page_ids) ==
    IsDict(topic) /\ Has(topic, kTopic) /\ Has(topic, kPageId)
        /\ topic.d[kPageId] \in page_ids

\* the items of seq at the indices in keep, in order
RECURSIVE Filter(_, _, _)
Filter(seq, keep, i) ==
    IF i > Len(seq) THEN <<>>
    ELSE IF i \in keep THEN <<seq[i]>> \o Filter(seq, keep, i + 1)
    ELSE Filter(seq, keep, i + 1)

\* the loop over page_topics and the assignment of valid_topics
FixTopics(db, rels, page_ids) ==
    IF \E i \in DOMAIN rels : TopicRaises(rels[i]) THEN [db |-> db, raised |-> TRUE]
    ELSE [db |-> Put(db, kTopics,
                     ListV(Filter(rels, {i \in DOMAIN rels : TopicKept(rels[i], page_ids)}, 1))),
          raised |-> FALSE]

\* the four "if key not in self.database" defaults
EnsureKeys(db) ==
    WithDefault(WithDefault(WithDefault(WithDefault(db, kPages, ListV(<<>>)),
                                        kTopics, ListV(<<>>)),
                            kSettings, EmptyDict),
                kQueue, ListV(<<>>))

\* the database d with the pages the loop left: they are mutated in
\* place, which shows only in a list
WithFixed(d, items) == IF IsList(d.d[kPages]) THEN Put(d, kPages, ListV(items)) ELSE d

\* verify_and_fix_structure on database db at clock value now: the database
\* it leaves, and whether it raised
verify_and_fix_structure(db, now, h) ==
    IF ~IsDict(db) THEN [db |-> EmptyDatabase, raised |-> FALSE]
    ELSE Bind(EnsureKeys(db), LAMBDA d :
         IF ~Iterable(d.d[kPages]) THEN [db |-> d, raised |-> TRUE]
         ELSE Bind(FixLoop(Items(d.d[kPages]), now, h), LAMBDA fx :
              IF fx.bad # 0 \/ PageIdsRaise(fx.items) \/ ~Iterable(d.d[kTopics])
              THEN [db |-> WithFixed(d, fx.items), raised |-> TRUE]
              ELSE FixTopics(WithFixed(d, fx.items), Items(d.d[kTopics]),
                             PageIds(fx.items))))

(***************************************************************************)
(* print_stats, as far as it changes the database or raises                *)
(***************************************************************************)
\* the inline topics of a page make unique_topics.update raise
InlineTopicsRaise(page) ==
    /\ IsDict(page)
    /\ Get(page, kInline).t = "list"
    /\ \E i \in DOMAIN Get(page, kInline).l : ~Hashable(Get(page, kInline).l[i])

\* page["html_content"].encode('utf-8') raises
HtmlRaises(page) ==
    IsDict(page) /\ Truthy(Get(page, kHtml)) /\ Get(page, kHtml).t # "str"

\* len(page["html_content"].encode('utf-8')): the alphabet is ASCII
HtmlSize(page) ==
    IF IsDict(page) /\ Get(page, kHtml).t = "str" THEN Len(Get(page, kHtml).s) ELSE 0

RECURSIVE SumSizes(_, _)
SumSizes(items, i) ==
    IF i > Len(items) THEN 0 ELSE HtmlSize(items[i]) + SumSizes(items, i + 1)

\* unique_topics.add(topic) raises on a relation of page_topics
TopicAddRaises(rels) ==
    \E i \in DOMAIN rels :
        IsDict(rels[i]) /\ Truthy(Get(rels[i], kTopic)) /\ ~Hashable(Get(rels[i], kTopic))

\* print_stats raises, on a database with these pages and settings
StatsRaise(db, items, settings) ==
    \/ ~Iterable(GetOr(db, kTopics, ListV(<<>>)))
    \/ TopicAddRaises(Items(GetOr(db, kTopics, ListV(<<>>))))
    \/ ~Iterable(GetOr(db, kPages, ListV(<<>>)))
    \/ \E i \in DOMAIN items : InlineTopicsRaise(items[i])
    \/ ~Sized(GetOr(db, kQueue, ListV(<<>>)))
    \/ ~IsDict(settings)
    \/ /\ ~Truthy(Get(settings, kTotalSize))
       /\ \E i \in DOMAIN items : HtmlRaises(items[i])

\* print_stats on a database that is a dict: the database it leaves, and
\* whether it raised
print_stats(db) ==
    Bind(GetOr(db, kSettings, EmptyDict), LAMBDA settings :
    Bind(Items(GetOr(db, kPages, ListV(<<>>))), LAMBDA items :
         IF StatsRaise(db, items, settings) THEN [db |-> db, raised |-> TRUE]
         ELSE IF ~Truthy(Get(settings, kTotalSize)) /\ SumSizes(items, 1) > 0
              THEN [db |-> Put(db, kSettings,
                               Put(settings, kTotalSize, NumV(SumSizes(items, 1)))),
                    raised |-> FALSE]
         ELSE [db |-> db, raised |-> FALSE]))

\* VerifyAndStats as it would be without the call of the normalizer
StatsOnly(db, now, h) ==
    Bind(print_stats(db), LAMBDA q :
         [db |-> q.db, raised |-> q.raised, verified |-> FALSE])

\* verify_and_fix_structure(); print_stats(): the tail of every tier that
\* found entries
VerifyAndStats(db, now, h) ==
    Bind(verify_and_fix_structure(db, now, h), LAMBDA v :
         IF v.raised THEN [db |-> v.db, raised |-> TRUE, verified |-> FALSE]
         ELSE Bind(print_stats(v.db), LAMBDA q :
                   [db |-> q.db, raised |-> q.raised, verified |-> TRUE]))

(***************************************************************************)
(* The pattern extractor and the salvage extractor                         *)
(***************************************************************************)
\* any(p.get('url') == page_obj.get('url') or (p.get('id') and p.get('id')
\* == page_obj.get('id')) for p in pages), or the generator raises on an
\* item without .get: in both cases the candidate is not appended
PageKnown(pages, page_obj) ==
    \E i \in DOMAIN pages :
        \/ ~IsDict(pages[i])
        \/ Get(pages[i], kUrl) = Get(page_obj, kUrl)
        \/ Truthy(Get(pages[i], kId)) /\ Get(pages[i], kId) = Get(page_obj, kId)

\* the duplicate test made against the first relation only
TopicKnownAsFirst(topics, topic_obj) ==
    /\ topics # <<>>
    /\ Get(topics[1], kTopic) = Get(topic_obj, kTopic)
    /\ Get(topics[1], kPageId) = Get(topic_obj, kPageId)

\* the duplicate test of the topic loops, or the generator raises
TopicKnown(topics, topic_obj) ==
    \E i \in DOMAIN topics :
        \/ ~IsDict(topics[i])
        \/ /\ Get(topics[i], kTopic) = Get(topic_obj, kTopic)
           /\ Get(topics[i], kPageId) = Get(topic_obj, kPageId)

\* json.loads(self.cleanup_json(page_json)) behind the test for a quoted
\* url, title or html_content key
PageCandidate(page_json) ==
    IF \/ Contains(page_json, Quoted(kUrl))
       \/ Contains(page_json, Quoted(kTitle))
       \/ Contains(page_json, Quoted(kHtml))
    THEN Loads(cleanup_json(page_json)) ELSE Fail

\* the body of the loop over page_pattern.finditer(text) (lines 450-463) for
\* the match page_json: the entries it leaves
PageStep(pages, page_json) ==
    Bind(PageCandidate(page_json), LAMBDA r :
         IF r.ok /\ is_valid_page(r.v) /\ ~PageKnown(pages, r.v)
         THEN Append(pages, r.v) ELSE pages)

\* the loop over page_pattern.finditer(text) from match i on
RECURSIVE ExtractPages(_, _, _, _)
ExtractPages(pages, text, ms, i) ==
    IF i > Len(ms) THEN pages
    ELSE ExtractPages(PageStep(pages, Slice(text, ms[i].a, ms[i].b)), text, ms, i + 1)

\* json.loads(self.cleanup_json(topic_json)) behind the test for quoted
\* topic and page_id keys
TopicCandidate(topic_json) ==
    IF Contains(topic_json, Quoted(kTopic)) /\ Contains(topic_json, Quoted(kPageId))
    THEN Loads(cleanup_json(topic_json)) ELSE Fail

\* the loop over topic_pattern.finditer(text) from match i on
RECURSIVE ExtractTopicObjects(_, _, _, _)
ExtractTopicObjects(topics, text, ms, i) ==
    IF i > Len(ms) THEN topics
    ELSE Bind(TopicCandidate(Slice(text, ms[i].a, ms[i].b)), LAMBDA r :
              ExtractTopicObjects(
                  IF r.ok /\ Has(r.v, kTopic) /\ Has(r.v, kPageId) /\ ~TopicKnown(topics, r.v)
                  THEN Append(topics, r.v) ELSE topics,
                  text, ms, i + 1))

\* extract_topics: db holds a list of relations
extract_topics(db, text) ==
    Put(db, kTopics,
        ListV(ExtractTopicObjects(db.d[kTopics].l, text, ObjMatches(text, TopicKeys, 1), 1)))

\* json.loads of the span m of text, where there is one
ParsedSpan(text, m, clean) ==
    IF ~m.ok THEN Fail
    ELSE IF clean THEN Loads(cleanup_json(Slice(text, m.a, m.b)))
    ELSE Loads(Slice(text, m.a, m.b))

\* the settings object a text holds: re.search, then json.loads of group 1
\* (after cleanup_json where clean); ok when that is a dict
SettingsIn(text, clean) ==
    Bind(ParsedSpan(text, KeySpan(text, kSettings, "{", "}"), clean), LAMBDA r :
         IF r.ok /\ IsDict(r.v) THEN r ELSE Fail)

\* extract_objects: db holds lists of entries and of relations and a dict
\* of settings
extract_objects(db, text) ==
    Bind(SettingsIn(text, TRUE), LAMBDA st :
         Put(Put(Put(db, kPages,
                     ListV(ExtractPages(db.d[kPages].l, text,
                                        ObjMatches(text, PageKeys, 1), 1))),
                 kTopics,
                 ListV(ExtractTopicObjects(db.d[kTopics].l, text,
                                           ObjMatches(text, TopicKeys, 1), 1))),
             kSettings,
             IF st.ok THEN Update(db.d[kSettings], st.v) ELSE db.d[kSettings]))

\* self.database[k] = value where the parse r gave a value of type t
Assign(db, k, r, t) == IF r.ok /\ r.v.t = t THEN Put(db, k, r.v) ELSE db

\* extract_full_database
extract_full_database(db, text) ==
    Bind(ParsedSpan(text, DbSpan(text), FALSE), LAMBDA db_obj :
         IF db_obj.ok /\ IsDict(db_obj.v) /\ Has(db_obj.v, kPages) THEN db_obj.v
         ELSE Bind(ParsedSpan(text, KeySpan(text, kPages, "[", "]"), FALSE),
                   LAMBDA pages_list :
              Assign(Assign(IF pages_list.ok THEN Assign(db, kPages, pages_list, "list")
                            ELSE extract_objects(db, text),
                            kTopics,
                            ParsedSpan(text, KeySpan(text, kTopics, "[", "]"), FALSE),
                            "list"),
                     kSettings, SettingsIn(text, FALSE), "dict")))

\* the page_topics part of extract_other_data, for the array that opens
\* at topics_start and ends at e (0: the loop found no end)
OtherTopics(db, text, topics_start, e) ==
    IF e = 0 THEN db
    ELSE Bind(Loads(Slice(text, topics_start, e)), LAMBDA topics_list :
              IF topics_list.ok THEN Assign(db, kTopics, topics_list, "list")
              ELSE IF IsList(db.d[kTopics])
                   THEN extract_topics(db, Slice(text, topics_start, e))
              ELSE db)

\* extract_other_data
extract_other_data(db, text) ==
    Bind(KeySpan(text, kTopics, "[", "]"), LAMBDA topics_match :
         Assign(IF topics_match.ok
                THEN OtherTopics(db, text, topics_match.a, ScanArray(text, topics_match.a))
                ELSE db,
                kSettings, SettingsIn(text, FALSE), "dict"))

\* context = text[max(0, match.start() - 500):min(len(text), match.end() + 500)], scaled
Ctx == 8

Max(a, b) == IF a > b THEN a ELSE b

Min(a, b) == IF a < b THEN a ELSE b

\* the matches of url_pattern.finditer(text) from index from on
RECURSIVE UrlMatches(_, _)
UrlMatches(text, from) ==
    Bind(KeyString(text, kUrl, from), LAMBDA m :
         IF ~m.ok THEN <<>> ELSE <<m>> \o UrlMatches(text, m.b + 2))

\* group 1 of a match m in context, or the default
GroupOr(context, m, dflt) == IF m.ok THEN Slice(context, m.a, m.b) ELSE dflt

\* RecoveredPage as it would be with the id 1 for every match
RecoveredPageSameId(text, m, i, now) ==
    Bind(Slice(text, Max(1, m.at - Ctx), Min(Len(text), m.b + 1 + Ctx)), LAMBDA context :
         DictV((kId :> NumV(1)) @@ (kUrl :> StrV(Slice(text, m.a, m.b)))
                   @@ (kTitle :> StrV(GroupOr(context, KeyString(context, kTitle, 1), Unknown)))
                   @@ (kDesc :> StrV(GroupOr(context, KeyString(context, kDesc, 1),
                                              PartialRecovery)))
                   @@ (kDate :> StrV(IsoTime(now)))))

\* the simplified page of match m, the i-th
RecoveredPage(text, m, i, now) ==
    Bind(Slice(text, Max(1, m.at - Ctx), Min(Len(text), m.b + 1 + Ctx)), LAMBDA context :
         DictV((kId :> NumV(i)) @@ (kUrl :> StrV(Slice(text, m.a, m.b)))
                   @@ (kTitle :> StrV(GroupOr(context, KeyString(context, kTitle, 1), Unknown)))
                   @@ (kDesc :> StrV(GroupOr(context, KeyString(context, kDesc, 1),
                                              PartialRecovery)))
                   @@ (kDate :> StrV(IsoTime(now)))))

\* the loop of recover_basic_pages from match i on
RECURSIVE RecoverLoop(_, _, _, _, _)
RecoverLoop(pages, text, ms, i, now) ==
    IF i > Len(ms) THEN pages
    ELSE RecoverLoop(
             IF \E k \in DOMAIN pages : Get(pages[k], kUrl) = StrV(Slice(text, ms[i].a, ms[i].b))
             THEN pages ELSE Append(pages, RecoveredPage(text, ms[i], i, now)),
             text, ms, i + 1, now)

\* recover_basic_pages: db holds a list of entries
recover_basic_pages(db, text, now) ==
    Put(db, kPages, ListV(RecoverLoop(db.d[kPages].l, text, UrlMatches(text, 1), 1, now)))

(***************************************************************************)
(* The sizes of the streaming paths, scaled.  The code reads 10 MB chunks  *)
(* into a buffer capped at 20 MB of which it keeps the last 5 MB, and in   *)
(* the unstructured pass 5 MB chunks into a buffer cut to its last 20000   *)
(* characters; the first 51200 characters decide between the two passes.   *)
(* The model keeps the proportions of the first group around the chunk     *)
(* size of the run, and the order 500 < 20000 < 51200 < 5 MB of the rest.  *)
(***************************************************************************)
\* the cap as it would be if it were set below the size of a chunk
CapBelowChunk(chunk) == chunk \div 2

\* 20 * 1024 * 1024 against chunks of 10 * 1024 * 1024
Cap(chunk) == 2 * chunk

\* the window as it would be if it were the cap and a chunk: nothing is cut
TailWindowOfAll(chunk) == 3 * chunk

\* buffer[-5 * 1024 * 1024:] against chunks of 10 * 1024 * 1024
TailWindow(chunk) == chunk \div 2

\* chunks of 5 * 1024 * 1024 against chunks of 10 * 1024 * 1024
UChunk(chunk) == chunk \div 2

\* buffer[-20000:]
UCap == 16

\* f.read(1024 * 50)
StartLen == 17

(***************************************************************************)
(* The state of one run of load_file                                       *)
(***************************************************************************)
VARIABLES
    file,            \* the characters of the file at file_path
    big,             \* file_size_mb > 100
    chunk_size,      \* the chunk size of the run (see above)
    hashfn,          \* hash() of this process on the urls
    now,             \* the clock datetime.now() reads
    pc,              \* where the run stands
    database,        \* self.database
    buffer,          \* the buffer of the streaming loop under way
    fpos,            \* the characters the loop under way has read
    in_pages_array,  \* in_pages_array of process_structured_json
    result,          \* what load_file returned: "True", "False", or "pending"
    log,             \* the tiers started and the normalizer runs, in order
    current_page,    \* self.current_page
    active_topics,   \* self.active_topics
    search_query,    \* self.search_query
    filtered_results \* self.filtered_results

vars == <<file, big, chunk_size, hashfn, now, pc, database, buffer, fpos,
          in_pages_array, result, log,
          current_page, active_topics, search_query, filtered_results>>

\* the fields of the reader that the menus work on
ui == <<current_page, active_topics, search_query, filtered_results>>

\* __init__, lines 22-26
InitUi ==
    /\ current_page = 1
    /\ active_topics = {}
    /\ search_query = <<>>
    /\ filtered_results = <<>>

\* an entry of the log: what ran, and the entries the database held then
Ev(e, db) == [ev |-> e, had |-> PageCount(db)]

\* the next chunk f.read(n) returns
ReadChunk(n) == Slice(file, fpos + 1, Min(fpos + n, Len(file)))

\* Conclude as it would be without the except clauses around it: what the
\* normalizer or print_stats raises leaves load_file
ConcludeUnhandled(db, events, onRaise) ==
    \E vs \in {VerifyAndStats(db, now, hashfn)} :
        /\ database' = vs.db
        /\ now' = now + 1
        /\ log' = IF vs.verified THEN events \o <<Ev("verify", vs.db)>> ELSE events
        /\ IF ~vs.raised THEN pc' = "done" /\ result' = "True"
           ELSE pc' = "raised" /\ result' = result

\* verify_and_fix_structure(); print_stats(); return True of the three
\* success paths, where an exception leads to pc value onRaise (and from
\* process_unstructured_json to return False)
Conclude(db, events, onRaise) ==
    \E vs \in {VerifyAndStats(db, now, hashfn)} :
        /\ database' = vs.db
        /\ now' = now + 1
        /\ log' = IF vs.verified THEN events \o <<Ev("verify", vs.db)>> ELSE events
        /\ IF ~vs.raised THEN pc' = "done" /\ result' = "True"
           ELSE IF onRaise = "done" THEN pc' = "done" /\ result' = "False"
           ELSE pc' = onRaise /\ result' = result

\* a tier ends without entries, or on an exception before the normalizer
Proceed(db, events, to) ==
    /\ database' = db
    /\ pc' = to
    /\ log' = events
    /\ UNCHANGED <<now, result>>

\* len(self.database.get('pages', [])) raises
PagesLenRaises(db) == ~IsDict(db) \/ ~Sized(GetOr(db, kPages, ListV(<<>>)))

\* load_file, lines 41-42: the file is over the size threshold
SizeRoute ==
    /\ pc = "load_file"
    /\ big
    /\ pc' = "load_large_file"
    /\ UNCHANGED <<file, big, chunk_size, hashfn, now, database, buffer, fpos,
                   in_pages_array, result, log>>
    /\ UNCHANGED ui

\* load_file, lines 44-54 and 71-73: json.loads succeeds
WholeDocument ==
    /\ pc = "load_file"
    /\ ~big
    /\ \E r \in {Loads(file)} :
           /\ r.ok
           /\ IF PagesLenRaises(r.v)
              THEN Proceed(r.v, Append(log, Ev("whole", database)), "load_large_file")
              ELSE Conclude(r.v, Append(log, Ev("whole", database)), "load_large_file")
    /\ UNCHANGED <<file, big, chunk_size, hashfn, buffer, fpos, in_pages_array>>
    /\ UNCHANGED ui

\* load_file, lines 44-50 and 55-73: json.loads raises JSONDecodeError
PatternExtraction ==
    /\ pc = "load_file"
    /\ ~big
    /\ ~Loads(file).ok
    /\ \E db \in {extract_full_database(database, file)},
          evs \in {log \o <<Ev("whole", database), Ev("pattern", database)>>} :
           IF ~PagesLenRaises(db) /\ LenOf(GetOr(db, kPages, ListV(<<>>))) > 0
           THEN Conclude(db, evs, "load_large_file")
           ELSE Proceed(db, evs, "load_large_file")
    /\ UNCHANGED <<file, big, chunk_size, hashfn, buffer, fpos, in_pages_array>>
    /\ UNCHANGED ui

\* load_large_file
LoadLargeFile ==
    /\ pc = "load_large_file"
    /\ \E start_chunk \in {Slice(file, 1, Min(StartLen, Len(file)))} :
           pc' = IF /\ StripStartsWith(start_chunk, "{")
                    /\ Find(start_chunk, Quoted(kPages), 1) - 1 > 0
                 THEN "structured" ELSE "unstructured"
    /\ database' = EmptyDatabase
    /\ buffer' = <<>>
    /\ fpos' = 0
    /\ in_pages_array' = FALSE
    /\ log' = Append(log, Ev("stream", database))
    /\ UNCHANGED <<file, big, chunk_size, hashfn, now, result>>
    /\ UNCHANGED ui

(***************************************************************************)
(* process_structured_json                                                 *)
(***************************************************************************)
\* any(p.get('url') == page_obj.get('url') for p in self.database["pages"])
UrlKnown(pages, page_obj) ==
    \E i \in DOMAIN pages : Get(pages[i], kUrl) = Get(page_obj, kUrl)

\* lines 177-185: the object text is parsed and, when it is a valid page
\* with a new url, appended
Admit(db, obj_text) ==
    Bind(Loads(obj_text), LAMBDA page_obj :
         IF page_obj.ok /\ is_valid_page(page_obj.v) /\ ~UrlKnown(db.d[kPages].l, page_obj.v)
         THEN Put(db, kPages, ListV(Append(db.d[kPages].l, page_obj.v)))
         ELSE db)

RECURSIVE Drain(_, _)

\* lines 177-198, for the object obj_start..i of the buffer
Consume(db, buf, obj_start, i) ==
    IF LStripStartsWith(From(buf, i + 1), "]")
    THEN [db |-> extract_other_data(Admit(db, Slice(buf, obj_start, i)), From(buf, i + 1)),
          buffer |-> From(buf, i + 1), in_pages_array |-> FALSE]
    ELSE Drain(Admit(db, Slice(buf, obj_start, i)), From(buf, i + 1))

\* the loop "while in_pages_array" (lines 144-202): the database, the
\* buffer and in_pages_array when it is left
Drain(db, buf) ==
    Bind(FindChar(buf, "{", 1), LAMBDA obj_start :
         IF obj_start = 0 THEN [db |-> db, buffer |-> buf, in_pages_array |-> TRUE]
         ELSE Bind(ScanObject(buf, obj_start), LAMBDA i :
                   IF i = 0 THEN [db |-> db, buffer |-> buf, in_pages_array |-> TRUE]
                   ELSE Consume(db, buf, obj_start, i)))

\* lines 134-141: the index of the bracket that opens the pages array, 0
\* when the buffer does not hold it
ArrayStart(buf) ==
    Bind(Find(buf, Quoted(kPages) \o <<":">>, 1), LAMBDA pages_pos :
         IF pages_pos = 0 THEN 0 ELSE FindChar(buf, "[", pages_pos))

\* one pass of the chunk loop (lines 127-202) over the buffer with the
\* chunk appended
ChunkPass(db, buf, in_array) ==
    IF in_array THEN Drain(db, buf)
    ELSE IF ArrayStart(buf) # 0 THEN Drain(db, From(buf, ArrayStart(buf) + 1))
    ELSE [db |-> db, buffer |-> buf, in_pages_array |-> FALSE]

\* lines 212-225: after the loop
StructuredEnd(db, events) ==
    /\ buffer' = <<>>
    /\ fpos' = 0
    /\ in_pages_array' = FALSE
    /\ IF Len(db.d[kPages].l) > 0 THEN Conclude(db, events, "unstructured")
       ELSE Proceed(db, events, "unstructured")

\* StructuredOn as it would be if the loop went on without the chunk being
\* consumed from the file
StructuredOnRereading(st, events, n) ==
    /\ database' = st.db
    /\ buffer' = IF Len(st.buffer) > Cap(chunk_size)
                 THEN Last(st.buffer, TailWindow(chunk_size))
                 ELSE st.buffer
    /\ fpos' = fpos
    /\ in_pages_array' = TRUE
    /\ log' = events
    /\ UNCHANGED <<pc, now, result>>

\* lines 204-210: the loop goes on to the next read
StructuredOn(st, events, n) ==
    /\ database' = st.db
    /\ buffer' = IF Len(st.buffer) > Cap(chunk_size)
                 THEN Last(st.buffer, TailWindow(chunk_size))
                 ELSE st.buffer
    /\ fpos' = fpos + n
    /\ in_pages_array' = TRUE
    /\ log' = events
    /\ UNCHANGED <<pc, now, result>>

\* process_structured_json: one f.read(chunk_size) and what follows it up
\* to the next read or, when the loop is left, to the return
StructuredChunk ==
    /\ pc = "structured"
    /\ \E chunk \in {ReadChunk(chunk_size)} :
           IF chunk = <<>> THEN StructuredEnd(database, log)
           ELSE \E st \in {ChunkPass(database, buffer \o chunk, in_pages_array)},
                   evs \in {Append(log, Ev("structured", database))} :
                    IF ~st.in_pages_array THEN StructuredEnd(st.db, evs)
                    ELSE StructuredOn(st, evs, Len(chunk))
    /\ UNCHANGED <<file, big, chunk_size, hashfn>>
    /\ UNCHANGED ui

(***************************************************************************)
(* process_unstructured_json                                               *)
(***************************************************************************)
\* lines 261-277, on the database db1 of the final pass
UnstructuredReturn(db, events) ==
    IF Len(db.d[kPages].l) > 0 THEN Conclude(db, events, "done")
    ELSE /\ database' = db
         /\ pc' = "done"
         /\ result' = "False"
         /\ log' = events
         /\ now' = now + 1

\* lines 256-277: after the loop
UnstructuredEnd ==
    \E db1 \in {extract_objects(database, buffer)} :
        IF Len(db1.d[kPages].l) = 0
        THEN UnstructuredReturn(recover_basic_pages(db1, buffer, now),
                                Append(log, Ev("salvage", db1)))
        ELSE UnstructuredReturn(db1, log)

\* process_unstructured_json: one f.read(chunk_size) and what follows it
UnstructuredChunk ==
    /\ pc = "unstructured"
    /\ \E chunk \in {ReadChunk(UChunk(chunk_size))} :
           IF chunk = <<>> THEN UnstructuredEnd /\ UNCHANGED <<buffer, fpos>>
           ELSE /\ database' = extract_objects(database, buffer \o chunk)
                /\ buffer' = Last(buffer \o chunk, UCap)
                /\ fpos' = fpos + Len(chunk)
                /\ log' = Append(log, Ev("unstructured", database))
                /\ UNCHANGED <<pc, now, result>>
    /\ UNCHANGED <<file, big, chunk_size, hashfn, in_pages_array>>
    /\ UNCHANGED ui

(***************************************************************************)
(* The files of the runs: archive documents written as the archiver writes *)
(* them, the same documents cut short, and text that is no document        *)
(***************************************************************************)
Str(cs) == Quoted(cs)

Member(k, v) == Quoted(k) \o <<":">> \o v

RECURSIVE Join(_)
Join(xs) ==
    IF xs = <<>> THEN <<>>
    ELSE IF Len(xs) = 1 THEN xs[1]
    ELSE xs[1] \o <<",">> \o Join(Tail(xs))

Object(members) == <<"{">> \o Join(members) \o <<"}">>

Array(items) == <<"[">> \o Join(items) \o <<"]">>

Spaces(n) == [i \in 1..n |-> " "]

\* s without its last n characters
DropLast(s, n) == SubSeq(s, 1, Len(s) - n)

\* {"U":"u"}: a minimal entry
Entry(u) == Object(<<Member(kUrl, Str(<<u>>))>>)

\* {"U":"u","I":k}
EntryId(u, k) == Object(<<Member(kUrl, Str(<<u>>)), Member(kId, <<Digits[k + 1]>>)>>)

\* the entries arrays of the documents
PageLists ==
    { <<>>,
      <<Entry("a")>>,
      <<Entry("a"), Entry("c")>>,
      <<Entry("a"), Entry("a")>>,
      <<EntryId("a", 1), EntryId("c", 1)>>,
      <<EntryId("a", 1), Entry("c")>>,
      <<Entry("a"), <<"5">>>>,
      <<Object(<<Member(kUrl, Str(<<"a">>)), Member(kHtml, <<"5">>)>>)>>,
      <<Object(<<Member(kUrl, Str(<<"a">>)), Member(kHtml, Str(<<"}", "x">>))>>), Entry("c")>>,
      <<Object(<<Member(kUrl, Str(<<"a">>)), Member(kTitle, Str(<<"x">>))>>)>>,
      <<Object(<<Member(kDesc, Str(<<"x">>))>>)>> }

\* what follows the entries array in the documents
Rests ==
    { <<>>,
      <<Member(kTopics, Array(<<Object(<<Member(kTopic, Str(<<"x">>)),
                                         Member(kPageId, <<"1">>)>>)>>))>>,
      <<Member(kQueue, Array(<<Entry("x")>>))>>,
      <<Member(kSettings, Object(<<Member(kTotalSize, <<"7">>)>>))>>,
      <<Member(kSettings, Array(<<>>))>> }

Document(pages, rest) == Object(<<Member(kPages, Array(pages))>> \o rest)

\* the most characters a cut takes off the end of a document
MaxCut == 2

Documents ==
    {DropLast(Document(ps, r), n) : ps \in PageLists, r \in Rests, n \in 0..MaxCut}

\* files that hold no document
OtherFiles ==
    { <<>>,
      <<"5">>,
      Array(<<<<"1">>>>),
      Array(<<Entry("a")>>),
      Object(<<>>),
      Object(<<Member(kPages, <<"5">>)>>),
      Member(kUrl, Str(<<"a">>)),
      Member(kUrl, Str(<<"a">>)) \o <<",">> \o Member(kTitle, Str(<<"x">>)),
      Member(kUrl, Str(<<"a">>)) \o <<" ">> \o Member(kUrl, Str(<<"a">>)),
      <<"x">> \o EntryId("a", 1) \o <<"x">>,
      <<"x">> \o EntryId("a", 1) \o EntryId("c", 1),
      Member(kUrl, Str(<<"a">>)) \o Spaces(UCap) }

\* a document whose entries array holds no entry, whose relation has a nested
\* object, and whose queue holds an object with a url and an id
TierFiles ==
    { Object(<<Member(kPages, Array(<<Object(<<>>)>>)),
               Member(kTopics, Array(<<Object(<<Member(kTopic, Str(<<"x">>)),
                                                Member(kPageId, <<"1">>),
                                                Member(<<"w">>, Object(<<>>))>>)>>)),
               Member(kQueue, Array(<<EntryId("q", 1)>>))>>) }

Files == Documents \cup OtherFiles \cup TierFiles

\* the chunk sizes of the runs
ChunkSizes == {36, 40}

Init ==
    /\ file \in Files
    /\ big \in BOOLEAN
    /\ chunk_size \in ChunkSizes
    /\ hashfn \in [HashedUrls -> 0..(HashMod - 1)]
    /\ now = 0
    /\ pc = "load_file"
    /\ database = EmptyDatabase
    /\ buffer = <<>>
    /\ fpos = 0
    /\ in_pages_array = FALSE
    /\ result = "pending"
    /\ log = <<>>
    /\ InitUi

Next ==
    \/ SizeRoute
    \/ WholeDocument
    \/ PatternExtraction
    \/ LoadLargeFile
    \/ StructuredChunk
    \/ UnstructuredChunk

Spec == Init /\ [][Next]_vars

(***************************************************************************)
(* Properties of a run of load_file                                        *)
(***************************************************************************)
\* the entries of a database, where it holds a list of them
PagesOf(db) ==
    IF IsDict(db) /\ Has(db, kPages) /\ IsList(db.d[kPages]) THEN db.d[kPages].l ELSE <<>>

\* the urls of the entries of a database
UrlSet(db) ==
    {PagesOf(db)[i].d[kUrl] :
        i \in {j \in DOMAIN PagesOf(db) : IsDict(PagesOf(db)[j]) /\ Has(PagesOf(db)[j], kUrl)}}

\* one top-level object whose entries array holds entry objects
WellFormed(r) ==
    /\ r.ok
    /\ IsDict(r.v)
    /\ Has(r.v, kPages)
    /\ IsList(r.v.d[kPages])
    /\ \A i \in DOMAIN r.v.d[kPages].l : IsDict(r.v.d[kPages].l[i])

\* the urls of the whole-document path: json.loads, then the normalizer
WholeUrlSet(r) == UrlSet(verify_and_fix_structure(r.v, 0, hashfn).db)

\* C1: for every well-formed file, at every chunk size, the urls of the
\* entries the chunked stream path ends with (the file forced through
\* load_large_file) are the urls of the entries the whole-document path
\* (json.loads, then verify_and_fix_structure) produces.
C1_StreamUrlsEqualWholeUrls ==
    (big /\ pc = "done" /\ WellFormed(Loads(file)))
        => UrlSet(database) = WholeUrlSet(Loads(file))

\* two entries of the database share a url
SharedUrl(pages) ==
    \E i, j \in DOMAIN pages :
        /\ i < j
        /\ IsDict(pages[i]) /\ IsDict(pages[j])
        /\ Has(pages[i], kUrl) /\ Has(pages[j], kUrl)
        /\ pages[i].d[kUrl] = pages[j].d[kUrl]

\* two entries of the database share an id that is not null
SharedId(pages) ==
    \E i, j \in DOMAIN pages :
        /\ i < j
        /\ IsDict(pages[i]) /\ IsDict(pages[j])
        /\ Has(pages[i], kId) /\ pages[i].d[kId] # None
        /\ Get(pages[j], kId) = pages[i].d[kId]

\* C2: when load_file has returned True, by whichever tier, no two entries
\* of the database share a url and no two share a non-null id, the ids the
\* normalizer synthesizes from the hash of the url included.
C2_UniqueUrlsAndIds ==
    result = "True" => ~SharedUrl(PagesOf(database)) /\ ~SharedId(PagesOf(database))

\* the tiers of the selector, in the order of the cascade
TierOrder == <<"whole", "pattern", "stream", "salvage">>

\* the log holds event e before index k
RanBefore(e, k) == \E j \in 1..(k - 1) : log[j].ev = e

\* C7: for a file below the size threshold the tiers run in the order
\* whole-document parse, pattern extraction, chunked stream extraction,
\* salvage: a tier is started only when every earlier tier has run and the
\* database holds no entry (so salvage runs only on an empty entries
\* collection).
C7_TierStartsAfterEarlierTiersFoundNothing ==
    ~big =>
        \A k \in DOMAIN log, t \in DOMAIN TierOrder :
            log[k].ev = TierOrder[t] =>
                /\ log[k].had = 0
                /\ \A u \in 1..(t - 1) : RanBefore(TierOrder[u], k)

\* C8: load_file returns True only with at least one entry in the database.
C8_TrueOnlyWithEntries == result = "True" => PageCount(database) > 0

\* C9: load_file returns False only when salvage has run and the entries
\* collection is empty at the return.
C9_FalseOnlyWhenNothingRecovered ==
    result = "False" =>
        /\ PageCount(database) = 0
        /\ \E k \in DOMAIN log : log[k].ev = "salvage"

\* C10: when load_file has returned True, verify_and_fix_structure has run
\* on the database after every tier: the last entry of the log is a run of
\* the normalizer, and the database returned is normalized (a further run
\* of the normalizer would change nothing).
C10_VerifiedBeforeTrue ==
    result = "True" =>
        /\ log # <<>>
        /\ log[Len(log)].ev = "verify"
        /\ verify_and_fix_structure(database, now, hashfn) = [db |-> database, raised |-> FALSE]

\* load_file has returned True from the stream tier with entries and a
\* relation the normalizer kept
C10_TrueFromStreamTier ==
    /\ result = "True"
    /\ PageCount(database) > 0
    /\ Len(Items(database.d[kTopics])) > 0
    /\ \E k \in DOMAIN log : log[k].ev = "structured"

\* load_file is one sequential call: until it has returned, it keeps taking
\* steps (weak fairness of Next, whose steps are possible exactly until the
\* return)
SpecFair == Spec /\ ([]<>(pc = "done") \/ []<><<Next>>_vars)

\* C11: whatever the file holds, load_file terminates with a return of True
\* or of False and no exception leaves it: every run reaches the return, and
\* a run is only ever over with one of the two values returned.
C11_NoExceptionEscapes ==
    /\ [](pc \in {"load_file", "load_large_file", "structured",
                  "unstructured", "done"})
    /\ [](pc = "done" <=> result \in {"True", "False"})
    /\ <>(pc = "done")

\* load_file has returned False with an entry in the database: print_stats
\* raised in every tier, and each time the exception was caught
C11_RaisedAndCaught ==
    /\ pc = "done"
    /\ result = "False"
    /\ PageCount(database) > 0
    /\ \E k \in DOMAIN log : log[k].ev = "unstructured"

\* the spans of text that parse as one object an entry can be made of
EntryFragments(text) ==
    {s \in (DOMAIN text) \X (DOMAIN text) :
        /\ s[1] < s[2]
        /\ text[s[1]] = "{"
        /\ text[s[2]] = "}"
        /\ \E r \in {Loads(Slice(text, s[1], s[2]))} : r.ok /\ is_valid_page(r.v)}

\* the file starts a top-level object that does not parse, and exactly one
\* span of it parses as an entry
BrokenWithOneFragment ==
    /\ Len(file) > 0
    /\ file[1] = "{"
    /\ ~Loads(file).ok
    /\ Cardinality(EntryFragments(file)) = 1

\* C12: a file below the size threshold whose top-level object is broken
\* and which holds one parseable entry fragment is loaded by the pattern
\* tier: load_file returns True with exactly that one entry, and neither
\* the chunked stream tier nor salvage has run.
C12_OneFragmentLoadedByPatternTier ==
    (~big /\ pc = "done" /\ BrokenWithOneFragment) =>
        /\ result = "True"
        /\ PageCount(database) = 1
        /\ \A s \in EntryFragments(file) :
               \E r \in {Loads(Slice(file, s[1], s[2]))} :
                   Has(r.v, kUrl) => UrlSet(database) = {r.v.d[kUrl]}
        /\ \E k \in DOMAIN log : log[k].ev = "pattern"
        /\ \A k \in DOMAIN log : log[k].ev \in {"whole", "pattern", "verify"}

\* the values of the url key/value occurrences in text
UrlValues(text) ==
    {Slice(text, UrlMatches(text, 1)[k].a, UrlMatches(text, 1)[k].b) :
        k \in DOMAIN UrlMatches(text, 1)}

\* no span of text parses as an object
NoParseableObject(text) ==
    \A a \in DOMAIN text : \A b \in DOMAIN text :
        (a < b /\ text[a] = "{" /\ text[b] = "}") => ~Loads(Slice(text, a, b)).ok

\* C13: for a text with url key/value occurrences and no parseable object,
\* load_file returns True through salvage with exactly one entry for each
\* distinct url value, carrying that url; where the text holds no title and
\* no description, every entry has title "Unknown" and the partial-recovery
\* description.
C13_SalvageOneEntryPerUrl ==
    (pc = "done" /\ UrlValues(file) # {} /\ NoParseableObject(file)) =>
        /\ result = "True"
        /\ \E k \in DOMAIN log : log[k].ev = "salvage"
        /\ UrlSet(database) = {StrV(u) : u \in UrlValues(file)}
        /\ PageCount(database) = Cardinality(UrlValues(file))
        /\ \A i \in DOMAIN PagesOf(database) :
               /\ ~KeyString(file, kTitle, 1).ok
                      => Get(PagesOf(database)[i], kTitle) = StrV(Unknown)
               /\ ~KeyString(file, kDesc, 1).ok
                      => Get(PagesOf(database)[i], kDesc) = StrV(PartialRecovery)

\* C18: the stream extractor admits no object from behind the entries
\* array: on a well-formed file, as long as only process_structured_json
\* has worked on the database, each entry it holds is an entry of the
\* array, wherever the chunk boundaries fall and also when the array is
\* empty.
C18_NothingAdmittedAfterArray ==
    (/\ big
     /\ pc \in {"structured", "done"}
     /\ WellFormed(Loads(file))
     /\ \A k \in DOMAIN log : log[k].ev # "unstructured")
        => /\ UrlSet(database) \subseteq UrlSet(Loads(file).v)
           /\ PageCount(database) <= PageCount(Loads(file).v)

\* C19: when the stream extractor has reached the end of the entries array
\* of a well-formed file, the relations and the settings that follow the
\* array are recovered from the rest of the stream, also where they lie in
\* chunks not yet read: the run ends with the relations and the settings of
\* the whole-document path.
C19_DataAfterArrayRecovered ==
    (/\ big
     /\ pc = "done"
     /\ result = "True"
     /\ ~in_pages_array
     /\ WellFormed(Loads(file))
     /\ \A k \in DOMAIN log : log[k].ev # "unstructured")
        => \E whole \in {VerifyAndStats(Loads(file).v, 0, hashfn)} :
               whole.raised
               \/ /\ Get(database, kTopics) = Get(whole.db, kTopics)
                  /\ Get(database, kSettings) = Get(whole.db, kSettings)

\* process_unstructured_json from the read position pos on, with the
\* database db and the buffer buf: the database before the normalizer
RECURSIVE UnstructuredFrom(_, _, _)
UnstructuredFrom(db, buf, pos) ==
    IF pos >= Len(file)
    THEN Bind(extract_objects(db, buf), LAMBDA db1 :
              IF Len(db1.d[kPages].l) = 0 THEN recover_basic_pages(db1, buf, now) ELSE db1)
    ELSE Bind(buf \o Slice(file, pos + 1, Min(pos + UChunk(chunk_size), Len(file))),
              LAMBDA text :
              UnstructuredFrom(extract_objects(db, text), Last(text, UCap),
                               Min(pos + UChunk(chunk_size), Len(file))))

\* what a database holds, dates apart: the urls of its entries in order,
\* its relations and its settings
Recovered(db) ==
    <<[i \in DOMAIN PagesOf(db) |-> Get(PagesOf(db)[i], kUrl)],
      Get(db, kTopics), Get(db, kSettings)>>

\* C28: the database with which load_file returns True holds only what the
\* tier that succeeded recovered: when that tier is the unstructured
\* extraction, the entries, relations and settings are those that the
\* unstructured extraction yields from the reset database, and nothing that
\* the structured pass before it had placed there.
C28_OnlyDataOfSucceedingTier ==
    (/\ pc = "done"
     /\ result = "True"
     /\ \E k \in DOMAIN log : log[k].ev \in {"unstructured", "salvage"})
    => Recovered(database)
           = Recovered(VerifyAndStats(UnstructuredFrom(EmptyDatabase, <<>>, 0),
                                      now - 1, hashfn).db)

(***************************************************************************)
(* The structural normalizer on its own: verify_and_fix_structure is run   *)
(* MaxRuns times in a row on a database that json.loads returned.  Here    *)
(* log holds, for each run, the database before it, the database it left   *)
(* and whether it raised.                                                  *)
(***************************************************************************)
\* the runs of the normalizer in a row
MaxRuns == 2

\* the entries arrays of the databases handed to the normalizer
NormPageLists ==
    { <<>>,
      <<Entry("a")>>,
      <<Entry("a"), Entry("c")>>,
      <<EntryId("a", 1), EntryId("c", 2)>>,
      <<EntryId("a", 1), EntryId("c", 1)>>,
      <<EntryId("a", 0)>>,
      <<Entry("a"), <<"5">>>>,
      <<Object(<<Member(kDesc, Str(<<"x">>))>>)>>,
      <<Entry("a"), Object(<<Member(kUrl, Array(<<>>))>>), Entry("c")>> }

\* {"K":"t","G":g}: a topic relation
Relation(t, g) == Object(<<Member(kTopic, Str(<<t>>)), Member(kPageId, g)>>)

\* the relation collections of the databases handed to the normalizer
NormRelations ==
    { Array(<<>>),
      Array(<<Relation("x", <<"1">>)>>),
      Array(<<Relation("x", <<"0">>)>>),
      Array(<<Relation("x", <<"1">>), Relation("y", <<"2">>)>>),
      Array(<<Relation("x", <<"2">>), Relation("x", <<"1">>), Relation("x", <<"1">>)>>),
      Array(<<Object(<<Member(kTopic, Str(<<"x">>))>>), Relation("y", <<"1">>)>>),
      Array(<<Object(<<Member(kPageId, <<"1">>)>>), <<"5">>>>),
      Array(<<Relation("x", Array(<<>>))>>),
      <<"5">> }

\* the texts json.loads turns into the databases handed to the normalizer
NormDocuments ==
    {Document(ps, <<Member(kTopics, rs)>>) : ps \in NormPageLists, rs \in NormRelations}
        \cup {Document(ps, <<>>) : ps \in NormPageLists}
        \cup {Object(<<>>), Array(<<<<"1">>>>), <<"5">>}

\* the database is what json.loads returned; no file is being read, so the
\* variables of the tiers keep their initial values throughout
InitNorm ==
    /\ database \in {Loads(d).v : d \in NormDocuments}
    /\ hashfn \in [HashedUrls -> 0..(HashMod - 1)]
    /\ now = 0
    /\ pc = "verify"
    /\ log = <<>>
    /\ InitUi
    /\ file = <<>>
    /\ big = FALSE
    /\ chunk_size = 0
    /\ buffer = <<>>
    /\ fpos = 0
    /\ in_pages_array = FALSE
    /\ result = "pending"

\* one call of verify_and_fix_structure
Normalize ==
    /\ pc = "verify"
    /\ Len(log) < MaxRuns
    /\ \E v \in {verify_and_fix_structure(database, now, hashfn)} :
           /\ database' = v.db
           /\ log' = Append(log, [before |-> database, db |-> v.db, raised |-> v.raised])
    /\ now' = now + 1
    /\ UNCHANGED <<file, big, chunk_size, hashfn, pc, buffer, fpos, in_pages_array, result>>
    /\ UNCHANGED ui

NextNorm == Normalize

SpecNorm == InitNorm /\ [][NextNorm]_vars

\* every relation has topic and page_id, and its page_id is the id of an entry
RelationsSound(rels, pages) ==
    \A i \in DOMAIN rels :
        /\ IsDict(rels[i])
        /\ Has(rels[i], kTopic)
        /\ Has(rels[i], kPageId)
        /\ \E j \in DOMAIN pages :
               IsDict(pages[j]) /\ Has(pages[j], kId) /\ pages[j].d[kId] = rels[i].d[kPageId]

\* the relation collection of a database the normalizer returned from
RelationsOf(db) == Items(db.d[kTopics])

\* C3: after verify_and_fix_structure has returned, every relation left in
\* page_topics has topic and page_id, and its page_id is the id of an entry
\* of pages.
C3_RelationsReferToEntries ==
    \A k \in DOMAIN log :
        ~log[k].raised => RelationsSound(RelationsOf(log[k].db), Items(log[k].db.d[kPages]))

\* a run that dropped an orphaned relation and kept another
C3_OrphanDropped ==
    \E k \in DOMAIN log :
        /\ ~log[k].raised
        /\ IsDict(log[k].before) /\ Has(log[k].before, kTopics)
        /\ Len(RelationsOf(log[k].db)) = 1
        /\ Len(RelationsOf(log[k].before)) = 2

\* C4: the normalizer is idempotent: a run of verify_and_fix_structure on
\* the database an earlier run left, at a later time, leaves exactly that
\* database (entries with their ids, titles and dates, relations, settings
\* and queue).
C4_NormalizerIdempotent ==
    \A k \in DOMAIN log : k > 1 => log[k].db = log[k - 1].db

\* two runs, of which the first gave an entry its id, title and date and
\* dropped a relation
C4_SecondRunAfterFix ==
    /\ Len(log) = 2
    /\ ~log[1].raised
    /\ IsDict(log[1].before) /\ Has(log[1].before, kTopics)
    /\ PageCount(log[1].db) = 2
    /\ log[1].db.d[kPages] # log[1].before.d[kPages]
    /\ Len(RelationsOf(log[1].db)) < Len(RelationsOf(log[1].before))

\* relation rel has topic and page_id, and its page_id is the id of an entry
\* of pages
RefersToEntry(rel, pages) ==
    /\ IsDict(rel)
    /\ Has(rel, kTopic)
    /\ Has(rel, kPageId)
    /\ \E j \in DOMAIN pages :
           IsDict(pages[j]) /\ Has(pages[j], kId) /\ pages[j].d[kId] = rel.d[kPageId]

\* C23: verify_and_fix_structure drops a relation only if it lacks topic or
\* page_id or its page_id is the id of no entry: the relations it leaves are
\* exactly the relations whose page_id is the id of an entry (whatever that
\* id, 0 included, and ids the run has just given included), in their
\* original order.
C23_RelationsOfEntriesRetained ==
    \A k \in DOMAIN log :
        (/\ ~log[k].raised
         /\ IsDict(log[k].before)
         /\ Has(log[k].before, kTopics)
         /\ IsList(log[k].before.d[kTopics]))
        => RelationsOf(log[k].db) =
               SelectSeq(RelationsOf(log[k].before),
                         LAMBDA rel : RefersToEntry(rel, Items(log[k].db.d[kPages])))

(***************************************************************************)
(* The chunked stream extractor under buffer pressure: a well-formed       *)
(* stream of minimal entries with distinct urls is forced through          *)
(* load_large_file with chunks smaller than an entry, so that the cap      *)
(* (two chunks) is far below the length of the stream.                     *)
(***************************************************************************)
\* the most entries of a stream
MaxEntries == 4

\* the most spaces before the first entry, which shift every entry against
\* the chunk boundaries
MaxPad == 3

\* the urls of the entries of a stream, in order
StreamUrls == <<"a", "c", "x", "y", "z">>

\* {"P":[ e1,e2,...,en]} with pad spaces after the bracket
Stream(n, pad) ==
    Object(<<Member(kPages, <<"[">> \o Spaces(pad)
                              \o Join([i \in 1..n |-> Entry(StreamUrls[i])]) \o <<"]">>)>>)

\* the chunk sizes of the stream runs: an entry is 9 characters long
StreamChunkSizes == {6, 7, 8, 9}

InitStream ==
    /\ file \in {Stream(n, pad) : n \in 1..MaxEntries, pad \in 0..MaxPad}
    /\ big = TRUE
    /\ chunk_size \in StreamChunkSizes
    /\ hashfn \in [HashedUrls -> 0..(HashMod - 1)]
    /\ now = 0
    /\ pc = "load_file"
    /\ database = EmptyDatabase
    /\ buffer = <<>>
    /\ fpos = 0
    /\ in_pages_array = FALSE
    /\ result = "pending"
    /\ log = <<>>
    /\ InitUi

NextStream ==
    \/ SizeRoute
    \/ LoadLargeFile
    \/ StructuredChunk

SpecStream == InitStream /\ [][NextStream]_vars

\* the entry {"U":"u"} as json.loads returns it
MinimalEntry(u) == DictV(kUrl :> StrV(<<u>>))

\* C5: of a well-formed stream of n minimal entries with distinct urls, read
\* in chunks so small that the cap is far below the length of the stream,
\* process_structured_json recovers the n entries, each once and in order,
\* none malformed (each is the entry of the file with the id, title and date
\* the normalizer gives it), and load_file returns True, wherever the
\* chunk boundaries fall.
C5_StreamRecoversEveryEntry ==
    pc \in {"unstructured", "done"} =>
        /\ result = "True"
        /\ \A n \in 1..MaxEntries, pad \in 0..MaxPad :
               file = Stream(n, pad) =>
                   PagesOf(database) =
                       [i \in 1..n |-> FixPage(MinimalEntry(StreamUrls[i]), now - 1, hashfn)]

\* a stream of MaxEntries entries read in chunks of 6 characters (the cap
\* is 12, the stream over 40 characters long) ends with all its entries
C5_LongStreamRecovered ==
    /\ pc = "done"
    /\ result = "True"
    /\ chunk_size = 6
    /\ Len(file) > 3 * Cap(chunk_size)
    /\ PageCount(database) = MaxEntries
    /\ \E k \in DOMAIN log : log[k].ev = "structured" /\ log[k].had = MaxEntries - 1

(***************************************************************************)
(* The bracket scanner on its own: it is started at the opening bracket of *)
(* every short buffer over brackets, quotes, backslashes and a letter.     *)
(* Here buffer is the text scanned and fpos the index the scanner reports  *)
(* (0: incomplete).                                                        *)
(***************************************************************************)
\* the most characters after the opening bracket
MaxScanTail == 6

\* the closing bracket of an opening one
Closer(open) == IF open = "{" THEN "}" ELSE "]"

\* the characters of the buffers scanned for the bracket open
ScanChars(open) == {open, Closer(open), QT, BS, "x"}

\* the buffer starts with an opening bracket, and up to MaxScanTail
\* characters follow it; the scanner reads nothing but the buffer
InitScan ==
    /\ \E open \in {"{", "["}, n \in 0..MaxScanTail :
           \E t \in [1..n -> ScanChars(open)] : buffer = <<open>> \o t
    /\ pc = "scan"
    /\ fpos = 0
    /\ file = <<>>
    /\ big = FALSE
    /\ chunk_size = 0
    /\ hashfn = <<>>
    /\ now = 0
    /\ database = EmptyDatabase
    /\ in_pages_array = FALSE
    /\ result = "pending"
    /\ log = <<>>
    /\ InitUi

\* the for loop over the buffer, from its opening bracket on
Scan ==
    /\ pc = "scan"
    /\ fpos' = ScanLoop(ScanInit, buffer, 1, Len(buffer), buffer[1], Closer(buffer[1])).found
    /\ pc' = "scanned"
    /\ UNCHANGED <<file, big, chunk_size, hashfn, now, database, buffer, in_pages_array,
                   result, log>>
    /\ UNCHANGED ui

NextScan == Scan

SpecScan == InitScan /\ [][NextScan]_vars

\* the backslashes in a row that end just before index i
BackslashesBefore(s, i) ==
    (i - 1) - First({j \in 0..(i - 1) : \A k \in (j + 1)..(i - 1) : s[k] = BS})

\* the character at i follows a backslash that escapes it
Escaped(s, i) == BackslashesBefore(s, i) % 2 = 1

\* the quotes before index i that no backslash escapes
QuotesBefore(s, i) == {j \in 1..(i - 1) : s[j] = QT /\ ~Escaped(s, j)}

\* the character at i is the bracket c, outside every string and unescaped
Bracket(s, i, c) ==
    s[i] = c /\ ~Escaped(s, i) /\ Cardinality(QuotesBefore(s, i)) % 2 = 0

\* the nesting depth after index i
DepthAfter(s, i, open) ==
    Cardinality({j \in 1..i : Bracket(s, j, open)})
        - Cardinality({j \in 1..i : Bracket(s, j, Closer(open))})

\* the closer that balances the opener at index 1: the first closing
\* bracket after which the depth is 0 (0 when the buffer holds none)
BalancingCloser(s, open) ==
    First({i \in 1..Len(s) : Bracket(s, i, Closer(open)) /\ DepthAfter(s, i, open) = 0})

\* C6: the bracket scanner, started at an opening bracket, reports the index
\* of the closer that balances it, where brackets inside a double-quoted
\* string (a string with backslash-escaped quotes included) do not count and
\* a backslash escapes exactly the character after it; it reports incomplete
\* (0) when the buffer ends before the depth is back at 0.
C6_ScannerFindsBalancingCloser ==
    pc = "scanned" => fpos = BalancingCloser(buffer, buffer[1])

\* the scanner has been over {"\"}"}: the brace in the string, behind an
\* escaped quote, is passed over and the last brace reported
C6_BraceInStringPassed ==
    /\ pc = "scanned"
    /\ buffer = <<"{", QT, BS, QT, "}", QT, "}">>
    /\ fpos = 7

(***************************************************************************)
(* The settings extraction steps on their own: extract_objects,            *)
(* extract_full_database and extract_other_data are applied, in any order, *)
(* to texts that hold a settings fragment, starting from the database of   *)
(* __init__.                                                               *)
(***************************************************************************)
\* the most extraction steps of a run
MaxSteps == 2

\* "S":{...}
SettingsText(members) == Member(kSettings, Object(members))

SettingsTexts ==
    { SettingsText(<<Member(<<"a">>, <<"1">>)>>),
      SettingsText(<<Member(<<"b">>, <<"2">>)>>),
      SettingsText(<<Member(<<"a">>, <<"2">>)>>),
      SettingsText(<<Member(<<"a">>, <<"1">>), Member(<<"b">>, <<"2">>)>>) }

InitSettings ==
    /\ file = <<>>
    /\ big = FALSE
    /\ chunk_size = 0
    /\ hashfn = <<>>
    /\ now = 0
    /\ pc = "extract"
    /\ database = EmptyDatabase
    /\ buffer = <<>>
    /\ fpos = 0
    /\ in_pages_array = FALSE
    /\ result = "pending"
    /\ log = <<>>
    /\ InitUi

\* one extraction step: db is the database that op leaves
SettingsStep(op, text, db) ==
    /\ pc = "extract"
    /\ Len(log) < MaxSteps
    /\ database' = db
    /\ buffer' = text
    /\ log' = Append(log, [ev |-> op, before |-> database, text |-> text, db |-> db])
    /\ UNCHANGED <<file, big, chunk_size, hashfn, now, pc, fpos, in_pages_array, result>>
    /\ UNCHANGED ui

ExtractObjects ==
    \E text \in SettingsTexts :
        SettingsStep("extract_objects", text, extract_objects(database, text))

ExtractFullDatabase ==
    \E text \in SettingsTexts :
        SettingsStep("extract_full_database", text, extract_full_database(database, text))

ExtractOtherData ==
    \E text \in SettingsTexts :
        SettingsStep("extract_other_data", text, extract_other_data(database, text))

NextSettings == ExtractObjects \/ ExtractFullDatabase \/ ExtractOtherData

SpecSettings == InitSettings /\ [][NextSettings]_vars

\* the settings object a settings text holds
FragmentOf(text) == Loads(From(text, Len(Member(kSettings, <<>>)) + 1)).v

\* after holds exactly the keys of before and of fragment, with the value
\* of fragment where it has the key and the value of before elsewhere
MergedKeyWise(before, fragment, after) ==
    /\ IsDict(after)
    /\ DOMAIN after.d = DOMAIN before.d \cup DOMAIN fragment.d
    /\ \A k \in DOMAIN after.d :
           after.d[k] = IF k \in DOMAIN fragment.d THEN fragment.d[k] ELSE before.d[k]

\* C14: each settings extraction step merges the settings fragment it finds
\* into the settings already held, key by key: a key the fragment does not
\* hold keeps its value ({a:1} and then {b:2} leave {a:1, b:2}).
C14_SettingsMergedKeyWise ==
    \A k \in DOMAIN log :
        MergedKeyWise(Get(log[k].before, kSettings), FragmentOf(log[k].text),
                      Get(log[k].db, kSettings))

(***************************************************************************)
(* The operations of the menus: get_unique_topics, get_page_topics,        *)
(* search, display_results                                                 *)
(***************************************************************************)
\* the value an operation returns, or the fact that it raised
Returned(v) == [raised |-> FALSE, v |-> v]

Raised == [raised |-> TRUE, v |-> <<>>]

\* s.split(",") from index i on; cur is the piece under way
RECURSIVE SplitComma(_, _, _)
SplitComma(s, i, cur) ==
    IF i > Len(s) THEN <<cur>>
    ELSE IF s[i] = "," THEN <<cur>> \o SplitComma(s, i + 1, <<>>)
    ELSE SplitComma(s, i + 1, Append(cur, s[i]))

RECURSIVE LStrip(_)
LStrip(s) == IF s # <<>> /\ IsWs(s[1]) THEN LStrip(Tail(s)) ELSE s

RECURSIVE RStrip(_)
RStrip(s) == IF s # <<>> /\ IsWs(s[Len(s)]) THEN RStrip(SubSeq(s, 1, Len(s) - 1)) ELSE s

\* s.strip()
Strip(s) == RStrip(LStrip(s))

\* [t.strip() for t in s.split(",") if t.strip()]
SplitTopics(s) ==
    Bind(SplitComma(s, 1, <<>>), LAMBDA parts :
         SelectSeq([i \in DOMAIN parts |-> StrV(Strip(parts[i]))], LAMBDA t : Len(t.s) > 0))

\* the characters in the order of their code points
CodePoints ==
    <<" ", ",">> \o Digits \o <<"A", "C", "T", "X", "a", "c", "x", "y", "z">>

Ord(c) == First({i \in DOMAIN CodePoints : CodePoints[i] = c})

\* a < b for strings
RECURSIVE StrLess(_, _)
StrLess(a, b) ==
    IF b = <<>> THEN FALSE
    ELSE IF a = <<>> THEN TRUE
    ELSE IF a[1] = b[1] THEN StrLess(Tail(a), Tail(b))
    ELSE Ord(a[1]) < Ord(b[1])

\* a < b for two strings or two numbers
Less(a, b) == IF a.t = "str" THEN StrLess(a.s, b.s) ELSE a.n < b.n

\* sorting values xs raises: they are not all strings or all numbers
Unorderable(xs) ==
    /\ Cardinality(xs) > 1
    /\ ~(\A x \in xs : x.t = "str")
    /\ ~(\A x \in xs : x.t = "num")

\* sorted(list(S))
RECURSIVE Sorted(_)
Sorted(S) ==
    IF S = {} THEN <<>>
    ELSE Bind(CHOOSE x \in S : \A y \in S \ {x} : Less(x, y), LAMBDA x :
              <<x>> \o Sorted(S \ {x}))

\* the elements of a sequence
Range(xs) == {xs[i] : i \in DOMAIN xs}

\* get_unique_topics, lines 635-638: the loop over the entries from i on,
\* topics the set so far
RECURSIVE InlineTopics(_, _, _)
InlineTopics(items, i, topics) ==
    IF i > Len(items) THEN Returned(topics)
    ELSE IF ~IsDict(items[i]) THEN Raised
    ELSE IF ~Truthy(Get(items[i], kInline)) THEN InlineTopics(items, i + 1, topics)
    ELSE IF Get(items[i], kInline).t # "str" THEN Raised
    ELSE InlineTopics(items, i + 1,
                      topics \cup Range(SplitTopics(Get(items[i], kInline).s)))

\* get_unique_topics, lines 641-643
RECURSIVE RelationTopics(_, _, _)
RelationTopics(rels, i, topics) ==
    IF i > Len(rels) THEN Returned(topics)
    ELSE IF ~IsDict(rels[i]) THEN Raised
    ELSE IF ~Truthy(Get(rels[i], kTopic)) THEN RelationTopics(rels, i + 1, topics)
    ELSE IF ~Hashable(Get(rels[i], kTopic)) THEN Raised
    ELSE RelationTopics(rels, i + 1, topics \cup {Get(rels[i], kTopic)})

\* get_unique_topics
get_unique_topics(db) ==
    IF ~Iterable(GetOr(db, kPages, ListV(<<>>))) THEN Raised
    ELSE Bind(InlineTopics(Items(GetOr(db, kPages, ListV(<<>>))), 1, {}), LAMBDA p :
         IF p.raised \/ ~Iterable(GetOr(db, kTopics, ListV(<<>>))) THEN Raised
         ELSE Bind(RelationTopics(Items(GetOr(db, kTopics, ListV(<<>>))), 1, p.v), LAMBDA r :
              IF r.raised \/ Unorderable(r.v) THEN Raised
              ELSE Returned(Sorted(r.v))))

\* get_page_topics, lines 659-662: the comprehension over the relations
RECURSIVE TopicsOfId(_, _, _)
TopicsOfId(rels, i, page_id) ==
    IF i > Len(rels) THEN Returned(<<>>)
    ELSE IF ~IsDict(rels[i]) THEN Raised
    ELSE Bind(TopicsOfId(rels, i + 1, page_id), LAMBDA rest :
         IF rest.raised THEN Raised
         ELSE IF Get(rels[i], kPageId) = page_id /\ Truthy(Get(rels[i], kTopic))
              THEN Returned(<<Get(rels[i], kTopic)>> \o rest.v)
         ELSE rest)

\* get_page_topics
get_page_topics(db, page) ==
    IF ~IsDict(page) THEN Raised
    ELSE IF Truthy(Get(page, kInline))
         THEN IF Get(page, kInline).t = "str"
              THEN Returned(SplitTopics(Get(page, kInline).s))
              ELSE Raised
    ELSE IF Truthy(Get(db, kTopics)) /\ Truthy(Get(page, kId))
         THEN IF Iterable(Get(db, kTopics))
              THEN TopicsOfId(Items(Get(db, kTopics)), 1, Get(page, kId))
              ELSE Raised
    ELSE Returned(<<>>)

\* c.lower()
LowerChar(c) ==
    CASE c = "A" -> "a"
      [] c = "C" -> "c"
      [] c = "T" -> "t"
      [] c = "X" -> "x"
      [] OTHER -> c

\* s.lower()
Lower(s) == [i \in DOMAIN s |-> LowerChar(s[i])]

\* search, lines 684-688: the test of the fields ks of page in turn
RECURSIVE FieldsMatch(_, _, _)
FieldsMatch(page, ks, query_lower) ==
    IF ks = <<>> THEN Returned(FALSE)
    ELSE IF ~Truthy(Get(page, ks[1])) THEN FieldsMatch(page, Tail(ks), query_lower)
    ELSE IF Get(page, ks[1]).t # "str" THEN Raised
    ELSE IF Contains(Lower(Get(page, ks[1]).s), query_lower) THEN Returned(TRUE)
    ELSE FieldsMatch(page, Tail(ks), query_lower)

\* search, lines 671-677: the topic filter over results from i on
RECURSIVE TopicFilter(_, _, _, _)
TopicFilter(db, results, i, active) ==
    IF i > Len(results) THEN Returned(<<>>)
    ELSE Bind(get_page_topics(db, results[i]), LAMBDA t :
         IF t.raised THEN Raised
         ELSE Bind(TopicFilter(db, results, i + 1, active), LAMBDA rest :
              IF rest.raised THEN Raised
              ELSE IF active \subseteq Range(t.v) THEN Returned(<<results[i]>> \o rest.v)
              ELSE rest))

\* search, lines 680-690: the text filter over results from i on
RECURSIVE TextFilter(_, _, _)
TextFilter(results, i, query_lower) ==
    IF i > Len(results) THEN Returned(<<>>)
    ELSE Bind(FieldsMatch(results[i], <<kTitle, kUrl, kDesc>>, query_lower), LAMBDA m :
         IF m.raised THEN Raised
         ELSE Bind(TextFilter(results, i + 1, query_lower), LAMBDA rest :
              IF rest.raised THEN Raised
              ELSE IF m.v THEN Returned(<<results[i]>> \o rest.v)
              ELSE rest))

\* p.get("date_archived", "")
DateKey(p) == GetOr(p, kDate, StrV(<<>>))

\* sorted holds results newest first; p goes before the first result that is
\* older than p (the sort is stable)
InsertByDate(sorted, p) ==
    Bind(First({i \in DOMAIN sorted : Less(DateKey(sorted[i]), DateKey(p))}), LAMBDA i :
         IF i = 0 THEN Append(sorted, p)
         ELSE SubSeq(sorted, 1, i - 1) \o <<p>> \o SubSeq(sorted, i, Len(sorted)))

\* results.sort(key=..., reverse=True) from result i on
RECURSIVE SortByDate(_, _, _)
SortByDate(results, i, sorted) ==
    IF i > Len(results) THEN sorted
    ELSE SortByDate(results, i + 1, InsertByDate(sorted, results[i]))

\* results.sort raises
SortRaises(results) ==
    \/ \E i \in DOMAIN results : ~IsDict(results[i])
    \/ Unorderable({DateKey(results[i]) : i \in DOMAIN results})
    \/ /\ Len(results) > 1
       /\ \E i \in DOMAIN results : DateKey(results[i]).t \notin {"str", "num"}

\* search, lines 668-698: the filtered results
search(db, active, query) ==
    IF ~IsList(GetOr(db, kPages, ListV(<<>>))) THEN Raised
    ELSE Bind(IF active # {} THEN TopicFilter(db, GetOr(db, kPages, ListV(<<>>)).l, 1, active)
              ELSE Returned(GetOr(db, kPages, ListV(<<>>)).l), LAMBDA byTopic :
         IF byTopic.raised THEN Raised
         ELSE Bind(IF query # <<>> THEN TextFilter(byTopic.v, 1, Lower(query))
                   ELSE byTopic, LAMBDA byText :
              IF byText.raised \/ SortRaises(byText.v) THEN Raised
              ELSE Returned(SortByDate(byText.v, 1, <<>>))))

\* self.results_per_page
results_per_page == 2

\* total_pages of display_results and of search_menu
TotalPages(results) == (Len(results) + results_per_page - 1) \div results_per_page

\* display_results raises on the results of the page shown
DisplayRaises(db, results, page) ==
    \E i \in DOMAIN results :
        /\ (page - 1) * results_per_page < i
        /\ i <= page * results_per_page
        /\ \/ ~IsDict(results[i])
           \/ get_page_topics(db, results[i]).raised
           \/ Truthy(GetOr(results[i], kDate, StrV(<<>>)))
                  /\ GetOr(results[i], kDate, StrV(<<>>)).t # "str"
           \/ \E k \in DOMAIN get_page_topics(db, results[i]).v :
                  get_page_topics(db, results[i]).v[k].t # "str"

(***************************************************************************)
(* The menus of run, after load_file has returned True: the operations     *)
(* above are applied, in any order, to a database that the whole-document  *)
(* parse has loaded.  An exception of an operation ends the program        *)
(* (lines 986-991).                                                        *)
(***************************************************************************)
\* the most menu operations of a run
MaxOps == 4

\* {"U":"u","I":k,"D":"d"} and more members
Page(u, k, d, more) ==
    Object(<<Member(kUrl, Str(<<u>>)), Member(kId, <<Digits[k + 1]>>),
             Member(kDate, Str(<<d>>))>> \o more)

\* {"K":"t","G":k}
TopicOf(t, k) == Object(<<Member(kTopic, Str(<<t>>)), Member(kPageId, <<Digits[k + 1]>>)>>)

MenuDocuments ==
    { Object(<<Member(kPages, Array(<<Page("a", 1, "1", <<>>), Page("c", 2, "2", <<>>)>>)),
               Member(kTopics, Array(<<TopicOf("x", 1), TopicOf("y", 1), TopicOf("x", 2)>>))>>),
      Object(<<Member(kPages, Array(<<Page("a", 1, "2", <<Member(kInline, Str(<<"x", ",", " ", "y", ",", ",">>))>>),
                                      Page("c", 2, "2", <<Member(kTitle, Str(<<"X">>))>>)>>)),
               Member(kTopics, Array(<<TopicOf("z", 1), TopicOf("y", 2)>>))>>),
      Object(<<Member(kPages, Array(<<Page("a", 1, "1", <<Member(kInline, Array(<<Str(<<"x">>)>>))>>)>>))>>),
      Object(<<Member(kPages, Array(<<Page("a", 0, "1", <<>>)>>)),
               Member(kTopics, Array(<<TopicOf("x", 0)>>))>>),
      Object(<<Member(kPages, Array(<<Page("a", 1, "1", <<Member(kHtml, Str(<<"x">>))>>),
                                      Page("c", 2, "1", <<>>),
                                      Page("x", 3, "1", <<>>)>>)),
               Member(kTopics, Array(<<TopicOf("x", 1), TopicOf("x", 2), TopicOf("x", 3)>>))>>) }

\* what search_menu reads as the query
Queries == {<<>>, <<"a">>, <<"X">>}

\* load_file, lines 50-54, has returned True
InitMenu ==
    /\ file \in MenuDocuments
    /\ big = FALSE
    /\ chunk_size = 0
    /\ hashfn = <<>>
    /\ now = 1
    /\ pc = "menu"
    /\ \E vs \in {VerifyAndStats(Loads(file).v, 0, hashfn)} :
           ~vs.raised /\ database = vs.db
    /\ buffer = <<>>
    /\ fpos = 0
    /\ in_pages_array = FALSE
    /\ result = "True"
    /\ log = <<>>
    /\ InitUi

\* one more operation of a menu is under way
MenuOp(op) ==
    /\ pc = "menu"
    /\ Len(log) < MaxOps
    /\ log' = Append(log, [ev |-> op])
    /\ UNCHANGED <<file, big, chunk_size, hashfn, now, buffer, fpos, in_pages_array, result>>

\* search() as it would be if results were the entries list itself and not
\* a copy of it: without a filter, the sort reorders the entries
SearchInPlace(query) ==
    /\ search_query' = query
    /\ UNCHANGED active_topics
    /\ \E r \in {search(database, active_topics, query)} :
           IF r.raised
           THEN pc' = "raised" /\ UNCHANGED <<database, filtered_results, current_page>>
           ELSE /\ filtered_results' = r.v
                /\ current_page' = 1
                /\ database' = IF active_topics = {} /\ query = <<>>
                               THEN Put(database, kPages, ListV(r.v)) ELSE database
                /\ pc' = IF DisplayRaises(database, r.v, 1) THEN "raised" ELSE pc

\* search() with self.search_query = query; display_results()
Search(query) ==
    /\ search_query' = query
    /\ UNCHANGED <<database, active_topics>>
    /\ \E r \in {search(database, active_topics, query)} :
           IF r.raised
           THEN pc' = "raised" /\ UNCHANGED <<filtered_results, current_page>>
           ELSE /\ filtered_results' = r.v
                /\ current_page' = 1
                /\ pc' = IF DisplayRaises(database, r.v, 1) THEN "raised" ELSE pc

\* search_menu, lines 890-896
SearchMenu == \E query \in Queries : MenuOp("search") /\ Search(query)

\* Paging as it would be without the test against the number of pages
PagingPastTheEnd ==
    /\ MenuOp("paging")
    /\ \E page \in {current_page - 1, current_page + 1} :
           /\ 1 <= page
           /\ current_page' = page
           /\ pc' = IF DisplayRaises(database, filtered_results, page) THEN "raised" ELSE pc
    /\ UNCHANGED <<database, active_topics, search_query, filtered_results>>

\* search_menu, lines 914-924: the next or the previous page of the results
Paging ==
    /\ MenuOp("paging")
    /\ \E page \in {current_page - 1, current_page + 1} :
           /\ 1 <= page
           /\ page <= TotalPages(filtered_results)
           /\ current_page' = page
           /\ pc' = IF DisplayRaises(database, filtered_results, page) THEN "raised" ELSE pc
    /\ UNCHANGED <<database, active_topics, search_query, filtered_results>>

\* topic_menu: a topic is toggled, all are cleared, or the search is run
TopicMenu ==
    /\ MenuOp("topics")
    /\ \E topics \in {get_unique_topics(database)} :
           IF topics.raised THEN pc' = "raised" /\ UNCHANGED <<database, ui>>
           ELSE /\ topics.v # <<>>
                /\ \/ \E i \in DOMAIN topics.v :
                          /\ active_topics' =
                                 IF topics.v[i] \in active_topics
                                 THEN active_topics \ {topics.v[i]}
                                 ELSE active_topics \cup {topics.v[i]}
                          /\ UNCHANGED <<pc, database, current_page, search_query,
                                         filtered_results>>
                   \/ /\ active_topics' = {}
                      /\ UNCHANGED <<pc, database, current_page, search_query,
                                     filtered_results>>
                   \/ Search(search_query)

\* run, line 880
PrintStats ==
    /\ MenuOp("print_stats")
    /\ \E q \in {print_stats(database)} :
           /\ database' = q.db
           /\ pc' = IF q.raised THEN "raised" ELSE pc
    /\ UNCHANGED ui

NextMenu == SearchMenu \/ Paging \/ TopicMenu \/ PrintStats

SpecMenu == InitMenu /\ [][NextMenu]_vars

(***************************************************************************)
(* Properties of the menu operations                                       *)
(***************************************************************************)
\* the relations of a database
RelsOf(db) == IF IsList(Get(db, kTopics)) THEN Get(db, kTopics).l ELSE <<>>

\* the inline topics of an entry: the pieces of a comma-separated string or
\* the elements of a list, trimmed, the empty ones dropped
InlineOf(e) ==
    IF Get(e, kInline).t = "str" THEN SplitTopics(Get(e, kInline).s)
    ELSE IF Get(e, kInline).t = "list"
         THEN SelectSeq([i \in DOMAIN Get(e, kInline).l |->
                             StrV(Strip(Get(e, kInline).l[i].s))],
                        LAMBDA t : Len(t.s) > 0)
    ELSE <<>>

\* the topics of the relations of entry e, in the order of the collection
RelatedOf(db, e) ==
    Bind(SelectSeq(RelsOf(db), LAMBDA r : Has(e, kId) /\ Get(r, kPageId) = Get(e, kId)),
         LAMBDA rs : [i \in DOMAIN rs |-> Get(rs[i], kTopic)])

\* C15: get_page_topics(entry) returns the inline topics of the entry (a
\* comma-separated string or a list; split, trimmed, empty ones dropped) and
\* nothing from the relations when the entry has inline topics, and
\* otherwise exactly the topics of the relations whose page_id is the id of
\* the entry, in the order of the collection, whatever the id is.
C15_PageTopicsInlineElseRelations ==
    \A i \in DOMAIN PagesOf(database) :
        get_page_topics(database, PagesOf(database)[i]) =
            Returned(IF InlineOf(PagesOf(database)[i]) # <<>>
                     THEN InlineOf(PagesOf(database)[i])
                     ELSE RelatedOf(database, PagesOf(database)[i]))

\* C16: get_unique_topics returns exactly the inline topics of all entries
\* and the topics of all relations, each once, and every topic that
\* get_page_topics returns for an entry is among them.
C16_UniqueTopicsAreTheUnion ==
    /\ ~get_unique_topics(database).raised
    /\ Range(get_unique_topics(database).v) =
           UNION {Range(InlineOf(PagesOf(database)[i])) : i \in DOMAIN PagesOf(database)}
               \cup {Get(RelsOf(database)[k], kTopic) : k \in DOMAIN RelsOf(database)}
    /\ Cardinality(Range(get_unique_topics(database).v)) = Len(get_unique_topics(database).v)
    /\ \A i \in DOMAIN PagesOf(database) :
           Range(get_page_topics(database, PagesOf(database)[i]).v)
               \subseteq Range(get_unique_topics(database).v)

\* C17: once load_file has returned True, no operation of the menus (search
\* and the display of its results, the topic lookups, print_stats, the
\* toggling of topic filters, paging) changes the database.
C17_MenusLeaveDatabase == [][database' = database]_vars

\* a topic filter is set, a search with it has results, print_stats has run
\* again and the second page of results has been shown
C17_MenusUsed ==
    /\ pc = "menu"
    /\ active_topics # {}
    /\ filtered_results # <<>>
    /\ current_page = 2
    /\ \E k \in DOMAIN log : log[k].ev = "print_stats"

\* ceil(n / results_per_page): the fewest pages that hold n results
PagesFor(n) == CHOOSE k \in 0..n : k * results_per_page >= n /\ (k - 1) * results_per_page < n

\* C31: after any sequence of searches, next-page and previous-page
\* operations and topic-filter changes, current_page is at least 1 and at
\* most max(1, ceil(len(filtered_results) / results_per_page)); and every
\* search that returns, from search_menu or from topic_menu, leaves
\* current_page at 1.
C31_CurrentPageInRange ==
    /\ [](/\ 1 <= current_page
          /\ current_page <= Max(1, PagesFor(Len(filtered_results))))
    /\ [][filtered_results' # filtered_results => current_page' = 1]_vars
    /\ [][(/\ Len(log') > Len(log)
           /\ log'[Len(log')].ev = "search"
           /\ ~search(database, active_topics, search_query').raised)
              => current_page' = 1]_vars

\* a search has shown more than one page of results, the next page has
\* been shown, and a further search has returned
C31_SearchAfterPaging ==
    /\ pc = "menu"
    /\ Len(log) >= 3
    /\ log[1].ev = "search"
    /\ log[2].ev = "paging"
    /\ log[3].ev = "search"
    /\ PagesFor(Len(filtered_results)) >= 2
    /\ current_page = 1

(***************************************************************************)
(* The buffers of the two streaming loops: files with an entry whose url   *)
(* is longer than the cap, as a document (process_structured_json) and     *)
(* without the enclosing object (process_unstructured_json)                *)
(***************************************************************************)
\* the most characters of the long url
MaxValue == 24

\* {"U":"aa...a"} with k characters
LongEntry(k) == Object(<<Member(kUrl, Str([i \in 1..k |-> "a"]))>>)

BufferFiles ==
    {Document(<<LongEntry(k), Entry("c")>>, <<>>) : k \in 1..MaxValue}
        \cup {LongEntry(k) \o Entry("c") : k \in 1..MaxValue}

InitBuffer ==
    /\ file \in BufferFiles
    /\ big = TRUE
    /\ chunk_size \in StreamChunkSizes
    /\ hashfn = [u \in HashedUrls |-> 0]
    /\ now = 0
    /\ pc = "load_file"
    /\ database = EmptyDatabase
    /\ buffer = <<>>
    /\ fpos = 0
    /\ in_pages_array = FALSE
    /\ result = "pending"
    /\ log = <<>>
    /\ InitUi

NextBuffer ==
    \/ SizeRoute
    \/ LoadLargeFile
    \/ StructuredChunk
    \/ UnstructuredChunk

SpecBuffer == InitBuffer /\ [][NextBuffer]_vars

\* s is the end of t
IsSuffix(s, t) == Len(s) <= Len(t) /\ s = Last(t, Len(s))

\* C20: in both streaming loops the buffer is bounded: right before every
\* read of a chunk it is no longer than the cap of the loop (so it never
\* holds more than the cap and one chunk), and what a pass of the loop keeps
\* of the buffer and the chunk is their end; in the unstructured loop the
\* last cap characters.
C20_BufferBounded ==
    /\ [](pc = "structured" => Len(buffer) <= Cap(chunk_size))
    /\ [](pc = "unstructured" => Len(buffer) <= UCap)
    /\ [][(pc = "structured" /\ pc' = "structured")
              => IsSuffix(buffer', buffer \o ReadChunk(chunk_size))]_vars
    /\ [][(pc = "unstructured" /\ pc' = "unstructured")
              => buffer' = Last(buffer \o ReadChunk(UChunk(chunk_size)), UCap)]_vars

\* the structured loop has cut its buffer down to the window: no entry has
\* been taken out of it, more than the cap has been read, and the buffer is
\* the last characters read
C20_BufferCut ==
    /\ pc = "structured"
    /\ in_pages_array
    /\ PageCount(database) = 0
    /\ fpos > Cap(chunk_size)
    /\ buffer = Slice(file, fpos - TailWindow(chunk_size) + 1, fpos)

(***************************************************************************)
(* The per-object steps on their own: candidate objects are handed, one at *)
(* a time and in any order, to the step of the chunked stream extractor    *)
(* (lines 177-185) or to the step of the pattern extractor (lines          *)
(* 450-463), starting from the database of __init__.  Here log holds, for  *)
(* each step, the extractor, the candidate, the database before the step   *)
(* and the database after it.                                              *)
(***************************************************************************)
\* the most candidates of a run
MaxObjects == 3

\* {"I":k,"L":"t"}: an entry without url
Titled(k, t) == Object(<<Member(kId, <<Digits[k + 1]>>), Member(kTitle, Str(<<t>>))>>)

\* the candidate objects: entries that share a url, an id or neither, entries
\* without url, an entry in single quotes, an entry with a trailing comma,
\* and an object that is no entry
Candidates ==
    { EntryId("a", 1), EntryId("c", 1), EntryId("a", 2), EntryId("c", 0), EntryId("x", 0),
      Titled(1, "x"), Titled(2, "y"),
      <<"{", "'", "U", "'", ":", "'", "y", "'", ",", "'", "I", "'", ":", "3", "}">>,
      <<"{">> \o Member(kUrl, Str(<<"z">>)) \o <<",">> \o Member(kId, <<"4">>) \o <<",", "}">>,
      Object(<<Member(kDesc, Str(<<"x">>)), Member(kDate, Str(<<"y">>))>>) }

InitObjects ==
    /\ file = <<>>
    /\ big = FALSE
    /\ chunk_size = 0
    /\ hashfn = <<>>
    /\ now = 0
    /\ pc = "object"
    /\ database = EmptyDatabase
    /\ buffer = <<>>
    /\ fpos = 0
    /\ in_pages_array = FALSE
    /\ result = "pending"
    /\ log = <<>>
    /\ InitUi

\* the database the step of the pattern extractor leaves
PatternAdmit(db, page_json) ==
    Put(db, kPages, ListV(PageStep(db.d[kPages].l, page_json)))

\* one per-object step: db is the database that the extractor op leaves
ObjectStep(op, text, db) ==
    /\ pc = "object"
    /\ Len(log) < MaxObjects
    /\ database' = db
    /\ buffer' = text
    /\ log' = Append(log, [ev |-> op, before |-> database, text |-> text, db |-> db])
    /\ UNCHANGED <<file, big, chunk_size, hashfn, now, pc, fpos, in_pages_array, result>>
    /\ UNCHANGED ui

\* lines 177-185 of process_structured_json for a complete object
StreamObject ==
    \E obj_text \in Candidates :
        ObjectStep("process_structured_json", obj_text, Admit(database, obj_text))

\* lines 450-463 of extract_objects for a match
PatternObject ==
    \E page_json \in Candidates :
        ObjectStep("extract_objects", page_json, PatternAdmit(database, page_json))

NextObjects == StreamObject \/ PatternObject

SpecObjects == InitObjects /\ [][NextObjects]_vars

\* C21: the chunked stream extractor handles a complete object exactly as
\* the pattern extractor handles a match (cleanup_json before parsing,
\* rejection when an admitted entry has the same url or the same id): from
\* the same database and the same candidate both steps leave the same
\* database, so both admit the same entries of a sequence of candidates.
C21_StreamStepIsPatternStep ==
    \A k \in DOMAIN log :
        Admit(log[k].before, log[k].text) = PatternAdmit(log[k].before, log[k].text)

\* the candidate of step k as the pattern extractor parses it
ParsedAt(k) == PageCandidate(log[k].text)

\* step k appended its parsed candidate to the entries
AdmittedAt(k) ==
    PagesOf(log[k].db) = Append(PagesOf(log[k].before), ParsedAt(k).v)

\* entry p has the url of the candidate, or its id where that is not null
SameUrlOrId(p, page_obj) ==
    \/ Has(p, kUrl) /\ Has(page_obj, kUrl) /\ p.d[kUrl] = page_obj.d[kUrl]
    \/ /\ Has(p, kId) /\ Has(page_obj, kId)
       /\ p.d[kId] # None
       /\ p.d[kId] = page_obj.d[kId]

\* C22: the step of the pattern extractor admits a parsed candidate if and
\* only if it is a mapping with at least one of url, title and id and no
\* entry admitted before has the same url or the same non-null id (so
\* candidates without url that differ in id or title are each admitted);
\* a candidate it does not admit leaves the entries as they were.
C22_AdmittedIffNewEntry ==
    \A k \in DOMAIN log :
        log[k].ev = "extract_objects" /\ ParsedAt(k).ok =>
            IF /\ IsDict(ParsedAt(k).v)
               /\ \E key \in {kUrl, kTitle, kId} : Has(ParsedAt(k).v, key)
               /\ \A i \in DOMAIN PagesOf(log[k].before) :
                      ~SameUrlOrId(PagesOf(log[k].before)[i], ParsedAt(k).v)
            THEN AdmittedAt(k)
            ELSE PagesOf(log[k].db) = PagesOf(log[k].before)

(***************************************************************************)
(* The per-object topic extractions on their own: extract_objects and      *)
(* extract_topics are applied, in any order, to texts that hold relation   *)
(* objects, starting from a relation collection without duplicates.  Here  *)
(* log holds, for each extraction, its name and the number of relations    *)
(* before it.                                                              *)
(***************************************************************************)
\* the most extractions of a run
MaxExtractions == 2

\* the relation collections the extractions start from
StartRelations ==
    { <<>>,
      <<Relation("x", <<"1">>)>>,
      <<Relation("x", <<"1">>), Relation("y", <<"1">>)>>,
      <<Relation("x", <<"1">>), Relation("x", <<"2">>)>> }

\* the relation objects of the texts: relations that share topic, page_id,
\* both or neither, in either key order, with an id, with a trailing comma,
\* and objects that lack topic or page_id
RelationObjects ==
    { Relation("x", <<"1">>),
      Relation("y", <<"1">>),
      Relation("y", <<"2">>),
      Object(<<Member(kPageId, <<"1">>), Member(kTopic, Str(<<"x">>))>>),
      Object(<<Member(kTopic, Str(<<"x">>)), Member(kPageId, <<"2">>), Member(kId, <<"7">>)>>),
      <<"{">> \o Member(kTopic, Str(<<"z">>)) \o <<",">> \o Member(kPageId, <<"2">>) \o <<",", "}">>,
      Object(<<Member(kTopic, Str(<<"x">>)), Member(kId, <<"5">>)>>),
      Object(<<Member(kId, <<"5">>), Member(kPageId, <<"3">>)>>) }

\* one relation object, or two of them in an array
RelationTexts ==
    RelationObjects
        \cup { Array(<<Relation("y", <<"2">>), Relation("y", <<"2">>)>>),
               Array(<<Relation("x", <<"1">>), Relation("y", <<"1">>)>>),
               Array(<<Relation("z", <<"1">>), Relation("x", <<"2">>)>>),
               Array(<<Relation("y", <<"2">>),
                       Object(<<Member(kPageId, <<"2">>), Member(kTopic, Str(<<"y">>))>>)>>) }

InitTopics ==
    /\ database \in {Put(EmptyDatabase, kTopics, Loads(Array(rs)).v) : rs \in StartRelations}
    /\ file = <<>>
    /\ big = FALSE
    /\ chunk_size = 0
    /\ hashfn = <<>>
    /\ now = 0
    /\ pc = "extract"
    /\ buffer = <<>>
    /\ fpos = 0
    /\ in_pages_array = FALSE
    /\ result = "pending"
    /\ log = <<>>
    /\ InitUi

\* one extraction: db is the database that op leaves
TopicStep(op, text, db) ==
    /\ pc = "extract"
    /\ Len(log) < MaxExtractions
    /\ database' = db
    /\ buffer' = text
    /\ log' = Append(log, [ev |-> op, had |-> Len(RelationsOf(database))])
    /\ UNCHANGED <<file, big, chunk_size, hashfn, now, pc, fpos, in_pages_array, result>>
    /\ UNCHANGED ui

ExtractObjectsOfText ==
    \E text \in RelationTexts :
        TopicStep("extract_objects", text, extract_objects(database, text))

ExtractTopicsOfText ==
    \E text \in RelationTexts :
        TopicStep("extract_topics", text, extract_topics(database, text))

NextTopics == ExtractObjectsOfText \/ ExtractTopicsOfText

SpecTopics == InitTopics /\ [][NextTopics]_vars

\* C24: from a relation collection without duplicates, after any sequence
\* of extract_objects and extract_topics every relation of page_topics has
\* topic and page_id, and no two relations have the same topic and the same
\* page_id.
C24_RelationsCompleteAndDistinct ==
    /\ \A i \in DOMAIN RelationsOf(database) :
           /\ IsDict(RelationsOf(database)[i])
           /\ Has(RelationsOf(database)[i], kTopic)
           /\ Has(RelationsOf(database)[i], kPageId)
    /\ \A i, j \in DOMAIN RelationsOf(database) :
           (/\ RelationsOf(database)[i].d[kTopic] = RelationsOf(database)[j].d[kTopic]
            /\ RelationsOf(database)[i].d[kPageId] = RelationsOf(database)[j].d[kPageId])
           => i = j

\* both extractions have run, relations were added, and the last extraction
\* found only relations the collection already held behind its first one
C24_DuplicateRejected ==
    /\ Len(log) = MaxExtractions
    /\ \E k \in DOMAIN log : log[k].ev = "extract_objects"
    /\ \E k \in DOMAIN log : log[k].ev = "extract_topics"
    /\ log[Len(log)].had = Len(RelationsOf(database))
    /\ log[Len(log)].had > log[1].had
    /\ log[Len(log)].had >= 3
    /\ buffer = Array(<<Relation("y", <<"2">>), Relation("y", <<"2">>)>>)

(***************************************************************************)
(* The pattern extractor on broken documents: extract_full_database and    *)
(* extract_objects are applied, in any order, to documents that do not     *)
(* parse as a whole, starting from the database of __init__.  Here log     *)
(* holds, for each step, its name, the database before it, the text and    *)
(* the database after it.                                                  *)
(***************************************************************************)
\* an object with a comma before its closing brace, which json.loads rejects
WithTrailingComma(members) == <<"{">> \o Join(members) \o <<",", "}">>

\* documents whose entries array, relations array or both hold such an
\* object, a document with a nested array and a nested object, a document
\* with a bracket in a string, and a document with a nested object in an
\* entry of an array that ends in a comma
BrokenDocuments ==
    { Object(<<Member(kPages, Array(<<EntryId("a", 1)>>)),
               Member(kTopics, Array(<<WithTrailingComma(<<Member(kTopic, Str(<<"x">>)),
                                                           Member(kPageId, <<"1">>)>>)>>))>>),
      Object(<<Member(kPages, Array(<<WithTrailingComma(<<Member(kUrl, Str(<<"a">>)),
                                                          Member(kId, <<"1">>)>>)>>)),
               Member(kTopics, Array(<<Relation("x", <<"1">>)>>))>>),
      Object(<<Member(kPages, Array(<<WithTrailingComma(<<Member(kUrl, Str(<<"a">>)),
                                                          Member(kId, <<"1">>)>>)>>)),
               Member(kTopics, Array(<<WithTrailingComma(<<Member(kTopic, Str(<<"x">>)),
                                                           Member(kPageId, <<"1">>)>>)>>))>>),
      Object(<<Member(kPages, Array(<<Object(<<Member(kUrl, Str(<<"a">>)),
                                               Member(kInline, Array(<<Str(<<"x">>)>>))>>)>>)),
               Member(kSettings, Object(<<Member(<<"a">>, Object(<<Member(<<"b">>, <<"1">>)>>)),
                                          Member(<<"c">>, <<"2">>)>>))>>),
      Object(<<Member(kPages, Array(<<Object(<<Member(kUrl, Str(<<"a", "]">>))>>)>>)),
               Member(kTopics, Array(<<Relation("x", <<"1">>)>>))>>),
      Object(<<Member(kPages,
                      <<"[">> \o Object(<<Member(kUrl, Str(<<"a">>)),
                                          Member(kDesc, Object(<<Member(kId, <<"1">>)>>)),
                                          Member(kTitle, Str(<<"t">>))>>) \o <<",", "]">>)>>) }

FullDatabaseOfDocument ==
    \E text \in BrokenDocuments :
        SettingsStep("extract_full_database", text, extract_full_database(database, text))

ObjectsOfDocument ==
    \E text \in BrokenDocuments :
        SettingsStep("extract_objects", text, extract_objects(database, text))

NextPattern == FullDatabaseOfDocument \/ ObjectsOfDocument

SpecPattern == InitSettings /\ [][NextPattern]_vars

\* the span m of text was located and does not parse
FailsToParse(text, m) == m.ok /\ ~ParsedSpan(text, m, FALSE).ok

\* C25: when extract_full_database locates the span of the entries array or
\* of the relations array and the span does not parse, the collection is
\* what per-object extraction makes of it (the entries that the page loop
\* of extract_objects admits, the relations that the topic loop admits),
\* for each array whether or not the other one parsed.
C25_UnparsedArrayExtractedPerObject ==
    \A k \in DOMAIN log :
        log[k].ev = "extract_full_database" =>
            /\ FailsToParse(log[k].text, KeySpan(log[k].text, kPages, "[", "]"))
               => PagesOf(log[k].db) =
                      ExtractPages(PagesOf(log[k].before), log[k].text,
                                   ObjMatches(log[k].text, PageKeys, 1), 1)
            /\ FailsToParse(log[k].text, KeySpan(log[k].text, kTopics, "[", "]"))
               => RelationsOf(log[k].db) =
                      ExtractTopicObjects(RelationsOf(log[k].before), log[k].text,
                                          ObjMatches(log[k].text, TopicKeys, 1), 1)

\* the span m of text, where one was located, ends at the closer that the
\* bracket scanner finds for its opener
EndsBalanced(text, m, open, close) ==
    m.ok => m.b = ScanLoop(ScanInit, text, m.a, Len(text), open, close).found

\* C26: every span the pattern extractor cuts out (the whole database, the
\* entries array, the relations array, the settings object, each entry
\* object and each relation object) ends at the closer that balances its
\* opener, with nested objects and arrays and brackets in strings skipped,
\* not at the first closer behind the opener.
C26_SpansEndAtBalancingCloser ==
    \A k \in DOMAIN log :
        /\ EndsBalanced(log[k].text, DbSpan(log[k].text), "{", "}")
        /\ EndsBalanced(log[k].text, KeySpan(log[k].text, kPages, "[", "]"), "[", "]")
        /\ EndsBalanced(log[k].text, KeySpan(log[k].text, kTopics, "[", "]"), "[", "]")
        /\ EndsBalanced(log[k].text, KeySpan(log[k].text, kSettings, "{", "}"), "{", "}")
        /\ \A keys \in {PageKeys, TopicKeys} :
               \A i \in DOMAIN ObjMatches(log[k].text, keys, 1) :
                   EndsBalanced(log[k].text, ObjMatches(log[k].text, keys, 1)[i], "{", "}")

(***************************************************************************)
(* load_file on documents with content: entries with and without           *)
(* html_content, settings with and without total_size_raw, the same        *)
(* documents cut short, and single entries that are no document.           *)
(***************************************************************************)
\* {"U":"u","H":"cs"}: an entry with content cs
EntryHtml(u, cs) == Object(<<Member(kUrl, Str(<<u>>)), Member(kHtml, Str(cs))>>)

\* the entries arrays of the documents with content
ContentLists ==
    { <<Entry("a")>>,
      <<EntryHtml("a", <<>>)>>,
      <<EntryHtml("a", <<"x", "y">>)>>,
      <<EntryHtml("a", <<"x", "y">>), EntryHtml("c", <<"z">>)>>,
      <<EntryHtml("a", <<"x", "y">>), Entry("c")>> }

\* the settings of the documents with content: none, an object without
\* total_size_raw, and total_size_raw with the values 7, 0 and "7"
ContentRests ==
    { <<>>,
      <<Member(kSettings, Object(<<>>))>>,
      <<Member(kSettings, Object(<<Member(kTotalSize, <<"7">>)>>))>>,
      <<Member(kSettings, Object(<<Member(kTotalSize, <<"0">>)>>))>>,
      <<Member(kSettings, Object(<<Member(kTotalSize, Str(<<"7">>))>>))>> }

ContentFiles ==
    {DropLast(Document(ps, r), n) : ps \in ContentLists, r \in ContentRests, n \in 0..1}
        \cup {EntryHtml("a", <<"x", "y">>), Entry("a"), <<"5">>}

InitContent ==
    /\ file \in ContentFiles
    /\ big \in BOOLEAN
    /\ chunk_size \in ChunkSizes
    /\ hashfn = [u \in HashedUrls |-> 1]
    /\ now = 0
    /\ pc = "load_file"
    /\ database = EmptyDatabase
    /\ buffer = <<>>
    /\ fpos = 0
    /\ in_pages_array = FALSE
    /\ result = "pending"
    /\ log = <<>>
    /\ InitUi

SpecContent == InitContent /\ [][Next]_vars

\* the settings of the document the file holds
FileSettings == GetOr(Loads(file).v, kSettings, EmptyDict)

\* C27: after load_file has returned True for a document, total_size_raw
\* of settings is the sum of the encoded lengths of the html_content of
\* the entries where the settings of the document had no total_size_raw,
\* and is the value of the document where that is an integer.
C27_TotalSizeIsSumUnlessHeld ==
    (/\ pc = "done"
     /\ result = "True"
     /\ ~big
     /\ WellFormed(Loads(file)))
    => /\ ~Has(FileSettings, kTotalSize)
          => Get(Get(database, kSettings), kTotalSize)
                 = NumV(SumSizes(PagesOf(database), 1))
       /\ (Has(FileSettings, kTotalSize) /\ FileSettings.d[kTotalSize].t = "num")
          => Get(Get(database, kSettings), kTotalSize) = FileSettings.d[kTotalSize]

(***************************************************************************)
(* The chunked stream extractor on streams that end anywhere: every        *)
(* prefix of a stream of minimal entries is forced through load_large_file *)
(* in small chunks, so that the file ends inside an object, between two    *)
(* objects, or before the array.                                           *)
(***************************************************************************)
\* the most entries of a stream that is cut
MaxCutEntries == 2

\* the prefixes of the streams
CutStreams ==
    UNION {{Slice(Stream(n, 0), 1, k) : k \in 1..Len(Stream(n, 0))} : n \in 1..MaxCutEntries}

InitCutStream ==
    /\ file \in CutStreams
    /\ big = TRUE
    /\ chunk_size \in StreamChunkSizes
    /\ hashfn = [u \in HashedUrls |-> 1]
    /\ now = 0
    /\ pc = "load_file"
    /\ database = EmptyDatabase
    /\ buffer = <<>>
    /\ fpos = 0
    /\ in_pages_array = FALSE
    /\ result = "pending"
    /\ log = <<>>
    /\ InitUi

\* load_large_file is one sequential call: until it has returned, it keeps
\* taking steps (weak fairness of NextBuffer, whose steps are possible
\* exactly until the return)
SpecCutStream ==
    InitCutStream /\ [][NextBuffer]_vars /\ ([]<>(pc = "done") \/ []<><<NextBuffer>>_vars)

\* C29: the chunked stream extractor terminates on every finite input: a
\* pass of the chunk loop that goes on to the next read has consumed a
\* non-empty chunk of the file, and every object its inner loop took has
\* left the buffer; the loop is left for the unstructured extraction or the
\* return; and from the stream extractor the run always reaches the return,
\* with True or False, also when the file ends inside an object.
C29_StreamExtractorTerminates ==
    /\ [][(pc = "structured" /\ pc' = "structured")
              => /\ fpos < fpos'
                 /\ fpos' <= Len(file)
                 /\ Len(buffer') + 2 * (PageCount(database') - PageCount(database))
                        <= Len(buffer) + (fpos' - fpos)]_vars
    /\ [][(pc = "structured" /\ pc' # "structured")
              => pc' \in {"unstructured", "done"}]_vars
    /\ (pc = "structured" ~> pc = "done")
    /\ [](pc = "done" => result \in {"True", "False"})

\* the stream extractor has returned True with the first entry of a stream
\* that ends inside its second entry
C29_EndedInsideObject ==
    /\ pc = "done"
    /\ result = "True"
    /\ \E k \in DOMAIN log : log[k].ev = "structured"
    /\ PageCount(database) = 1
    /\ Len(file) > Len(Stream(1, 0))
    /\ Len(file) < Len(Stream(2, 0)) - 2
    /\ file = Slice(Stream(2, 0), 1, Len(file))

(***************************************************************************)
(* The salvage extractor on its own: recover_basic_pages is run, on the    *)
(* empty entries collection with which process_unstructured_json calls it, *)
(* on texts that hold url occurrences in every order, with repetitions.    *)
(* Here buffer is the text.                                                *)
(***************************************************************************)
\* the most url occurrences of a text
MaxOccurrences == 3

\* the urls of the occurrences
SalvageUrls == {"a", "c", "x"}

\* "U":"u1","U":"u2",...: the occurrences of the urls us, and the same
\* followed by a title
SalvageTexts ==
    UNION {{Join([i \in 1..n |-> Member(kUrl, Str(<<us[i]>>))]) \o tail :
               us \in [1..n -> SalvageUrls],
               tail \in {<<>>, <<",">> \o Member(kTitle, Str(<<"t">>))}} :
           n \in 1..MaxOccurrences}

InitSalvage ==
    /\ buffer \in SalvageTexts
    /\ database = EmptyDatabase
    /\ pc = "salvage"
    /\ now = 0
    /\ file = <<>>
    /\ big = FALSE
    /\ chunk_size = 0
    /\ hashfn = <<>>
    /\ fpos = 0
    /\ in_pages_array = FALSE
    /\ result = "pending"
    /\ log = <<>>
    /\ InitUi

\* lines 262-264: the call of recover_basic_pages on the buffer
RecoverBasicPages ==
    /\ pc = "salvage"
    /\ database' = recover_basic_pages(database, buffer, now)
    /\ pc' = "done"
    /\ now' = now + 1
    /\ log' = Append(log, Ev("salvage", database))
    /\ UNCHANGED <<file, big, chunk_size, hashfn, buffer, fpos, in_pages_array, result>>
    /\ UNCHANGED ui

NextSalvage == RecoverBasicPages

SpecSalvage == InitSalvage /\ [][NextSalvage]_vars

\* C30: the entries recover_basic_pages creates have pairwise distinct urls
\* and pairwise distinct ids, each id a positive integer, for any number
\* and order of url occurrences in the text, repeated ones included.
C30_SalvagedUrlsAndIdsDistinct ==
    /\ \A i \in DOMAIN PagesOf(database) :
           /\ Get(PagesOf(database)[i], kId).t = "num"
           /\ Get(PagesOf(database)[i], kId).n > 0
           /\ Get(PagesOf(database)[i], kUrl).t = "str"
    /\ \A i, j \in DOMAIN PagesOf(database) :
           i # j => /\ Get(PagesOf(database)[i], kUrl) # Get(PagesOf(database)[j], kUrl)
                    /\ Get(PagesOf(database)[i], kId) # Get(PagesOf(database)[j], kId)

\* recover_basic_pages has run on a text in which a url occurs twice before
\* another one, and has created two entries
C30_RepeatedUrlSalvaged ==
    /\ pc = "done"
    /\ buffer = Join(<<Member(kUrl, Str(<<"c">>)), Member(kUrl, Str(<<"c">>)),
                       Member(kUrl, Str(<<"a">>))>>)
    /\ PageCount(database) = 2
    /\ Get(PagesOf(database)[2], kId) = NumV(3)

====
